---- MODULE Spec2Model ----
(***************************************************************************)
(* Model of geonode/resource/manager.py: the ResourceManager lifecycle     *)
(* operations over the metadata store (ResourceBase rows) and the concrete *)
(* resource manager (the GIS backend).                                     *)
(*                                                                         *)
(* Every public operation of ResourceManager is one action.  An operation  *)
(* is computed by operators over a "frame": the store (rows, nextId), the  *)
(* in-memory instance the operation works on (m), the pending exception    *)
(* (exc), the exceptions raised so far (raised), the return value (ret),   *)
(* the perm spec last handed to set_permissions (spec) and the caller's    *)
(* own perm spec object (caller), the steps that are made to throw in this *)
(* call (faults) and the events of the call in order (log).  An operator   *)
(* takes the frame its caller has reached and gives the frame it leaves.   *)
(*                                                                         *)
(* Spec is the lifecycle of resources under the default settings,          *)
(* SpecWorkflow the permission workflow under every configuration of the   *)
(* site (settings), SpecInterleaved one operation taken statement by       *)
(* statement (worker) while another operation reads the store (observed),  *)
(* SpecRace two threads that call create with the same uuid (creators),    *)
(* SpecThesaurus the load_thesaurus management command of                  *)
(* geonode/base/management/commands over the thesaurus tables (db,         *)
(* command).                                                               *)
(***************************************************************************)
EXTENDS Naturals, Sequences, FiniteSets

VARIABLES rows, calls, last, settings, worker, observed, db, command, creators

vars == <<rows, calls, last, settings, worker, observed, db, command, creators>>

\* ---------------------------------------------------------------- bounds
MaxUuid == 2      \* uuids are 1..MaxUuid
MaxCalls == 3     \* how many calls of the manager a behaviour makes
MaxSchemes == 2    \* how many concept schemes a thesaurus file declares at most
MaxThesauri == 2   \* a command is run while fewer thesauri than this are stored
MaxFaults == 1    \* how many distinct steps may throw during one call, those of
                  \* a compensating delete counted apart

\* ------------------------------------------------------------ data model
NoUuid == 0                       \* a falsy uuid argument (None / "")
Uuids == 1..MaxUuid
UuidArgs == {NoUuid} \cup Uuids

STATE_RUNNING == "RUNNING"
STATE_PROCESSED == "PROCESSED"
STATE_INVALID == "INVALID"

ResourceTypes == {"Dataset", "Document", "Map"}

\* the value None of an instance argument or of a resolved resource
NoInstance ==
    [id |-> 0, uuid |-> NoUuid, rtype |-> "None", state |-> "NONE",
     dirty |-> FALSE, vals |-> {}, perms |-> {}, owner |-> "none",
     is_approved |-> FALSE, is_published |-> FALSE]

\* a freshly inserted ResourceBase row
NewRow(id, uuid, rtype) ==
    [id |-> id, uuid |-> uuid, rtype |-> rtype, state |-> STATE_PROCESSED,
     dirty |-> FALSE, vals |-> {}, perms |-> {}, owner |-> "admin",
     is_approved |-> TRUE, is_published |-> TRUE]

\* ResourceBase.objects.filter(uuid=uuid)
ByUuid(rws, uuid) == {i \in DOMAIN rws : rws[i].uuid = uuid}

\* resource_type.objects.filter(uuid=uuid)
ByUuidType(rws, uuid, rtype) ==
    {i \in DOMAIN rws : rws[i].uuid = uuid /\ rws[i].rtype = rtype}

RemoveIds(rws, ids) == [i \in (DOMAIN rws) \ ids |-> rws[i]]

PutRow(rws, r) == [i \in (DOMAIN rws) \cup {r.id} |-> IF i = r.id THEN r ELSE rws[i]]

\* the primary key the store gives the next inserted row: one that no row has
FreeId(rws) == CHOOSE i \in 1..(Cardinality(DOMAIN rws) + 1) : i \notin DOMAIN rws

\* a perm spec: the keys of the dict ('users', 'groups') and its entries as
\* pairs <<principal, permission>>; {} has no key
NoPermSpec == [keys |-> {}, grants |-> {}]

PermSpec(grants) == [keys |-> {"users", "groups"}, grants |-> grants]

\* django.conf.settings: the workflow configuration and the defaults of the
\* anonymous grants
Settings(publishing, moderate, view, download, registered) ==
    [RESOURCE_PUBLISHING |-> publishing, ADMIN_MODERATE_UPLOADS |-> moderate,
     DEFAULT_ANONYMOUS_VIEW_PERMISSION |-> view,
     DEFAULT_ANONYMOUS_DOWNLOAD_PERMISSION |-> download,
     AUTO_ASSIGN_REGISTERED_MEMBERS_TO_REGISTERED_MEMBERS_GROUP_NAME |-> registered]

\* the settings a site starts with
DefaultSettings == Settings(FALSE, FALSE, TRUE, TRUE, FALSE)

\* the parsed file: whether a path was given and rdflib can parse it, how many
\* skos:ConceptScheme it declares, the dc:title literals of the scheme and the
\* concepts
Graph(schemes, titles, concepts) ==
    [kind |-> "rdf", schemes |-> schemes, titles |-> titles, concepts |-> concepts]

\* no --file option
NoFile == [Graph(0, <<>>, <<>>) EXCEPT !.kind = "none"]

\* a file Graph.parse rejects
Unparsable == [Graph(0, <<>>, <<>>) EXCEPT !.kind = "unparsable"]

\* the tables of the thesaurus models, no row in any
EmptyDb ==
    [Thesaurus |-> <<>>, ThesaurusLabel |-> <<>>, ThesaurusKeyword |-> <<>>,
     ThesaurusKeywordLabel |-> <<>>]

\* no management command has been run
NoCommand ==
    [name |-> "", file |-> NoFile, dryrun |-> FALSE, before |-> EmptyDb, exc |-> "none"]

\* the threads that call create at the same time
Threads == {1, 2}

\* a thread that is about to call create(uuid, resource_type): where it stands,
\* its _resource and _created, whether it called the backend create and the
\* compensating delete, and the exception it raises
Creator(uuid, rtype) ==
    [pc |-> "start", uuid |-> uuid, rtype |-> rtype, m |-> NoInstance,
     created |-> FALSE, backend |-> FALSE, compensated |-> FALSE, exc |-> "none"]

\* no thread calls create
NoCreators == [t \in Threads |-> [Creator(NoUuid, "None") EXCEPT !.pc = "done"]]

\* no operation is under way
NoWorker ==
    [pc |-> "idle", op |-> "none", id |-> 0, atomic |-> FALSE, txn |-> <<>>,
     failed |-> FALSE]

\* nothing has been read yet
NoObservation == [uuid |-> NoUuid, state |-> "NONE", owner |-> "none", atomic |-> FALSE]

\* ------------------------------------------------------------- the frame
Frame(F) ==
    [rows |-> rows, nextId |-> FreeId(rows), m |-> NoInstance, exc |-> "none",
     raised |-> <<>>, ret |-> 0, spec |-> NoPermSpec, caller |-> NoPermSpec,
     faults |-> F, log |-> <<>>]

Log(f, ev) == [f EXCEPT !.log = Append(@, ev)]

Raise(f, e) == [f EXCEPT !.exc = e, !.raised = Append(@, e)]

Swallow(f) == [f EXCEPT !.exc = "none"]

Failed(f) == f.exc # "none"

\* a call of a collaborator (backend, storage, model helper) that throws when
\* the step is among the faults of this call
Step(f, name) ==
    IF Failed(f) THEN f
    ELSE IF name \in f.faults THEN Raise(f, name)
    ELSE Log(f, name)

\* a step inside its own try/except that logs and swallows
SwallowedStep(f, name) ==
    IF Failed(f) \/ name \in f.faults THEN f ELSE Log(f, name)

\* with transaction.atomic(): the writes to the store made by body are undone
\* when an exception leaves the block; in-memory objects keep their values
Rollback(before, after) ==
    IF Failed(after) THEN [after EXCEPT !.rows = before.rows] ELSE after

\* ------------------------------------------- ResourceBase model helpers
SetProcessingState(f, state) ==
    Log([f EXCEPT !.m.state = state,
                  !.rows = IF f.m.id \in DOMAIN f.rows
                           THEN [f.rows EXCEPT ![f.m.id].state = state]
                           ELSE f.rows],
        state)

SetDirtyState(f) ==
    Log([f EXCEPT !.m.dirty = TRUE,
                  !.rows = IF f.m.id \in DOMAIN f.rows
                           THEN [f.rows EXCEPT ![f.m.id].dirty = TRUE]
                           ELSE f.rows],
        "dirty")

\* Model.save(): UPDATE of the row by primary key, INSERT when there is none;
\* object permissions live in their own tables and are not touched
Save(f) ==
    IF Failed(f) THEN f
    ELSE IF "save" \in f.faults THEN Raise(f, "save")
    ELSE Log([f EXCEPT !.rows =
                 PutRow(f.rows,
                        [f.m EXCEPT !.perms = IF f.m.id \in DOMAIN f.rows
                                              THEN f.rows[f.m.id].perms
                                              ELSE {}])],
             "save")

\* ------------------------------------------------------- _get_instance
GetInstance(rws, uuid) ==
    IF Cardinality(ByUuid(rws, uuid)) = 1
    THEN rws[CHOOSE i \in ByUuid(rws, uuid) : TRUE]
    ELSE NoInstance

\* instance or ResourceManager._get_instance(uuid)
Resolve(rws, uuid, inst) == IF inst.id # 0 THEN inst ELSE GetInstance(rws, uuid)

\* the operation works on the resolved resource r
Enter(f, op, r) == [Log(f, op) EXCEPT !.m = r]

\* -------------------------------------------------- remove_permissions
\* the permissions of a Dataset that are recorded for the Dataset content type
DatasetPerms == {"change_dataset_data"}

\* the object permission records of the Dataset content type
DatasetGrants(r) ==
    IF r.rtype = "Dataset" THEN {g \in r.perms : g[2] \in DatasetPerms} ELSE {}

DeleteGrants(f, grants) ==
    [f EXCEPT !.rows = IF f.m.id \in DOMAIN f.rows
                       THEN [f.rows EXCEPT ![f.m.id].perms = @ \ grants]
                       ELSE f.rows]

\* lines 549-563: the user and group permission records of the Dataset
DeleteDatasetPermissionsSkipped(f) == f

DeleteDatasetPermissions(f) ==
    IF f.m.id \in DOMAIN f.rows /\ f.m.rtype = "Dataset"
    THEN Log(DeleteGrants(f, DatasetGrants(f.rows[f.m.id])), "perms.delete.dataset")
    ELSE f

\* lines 564-569: the user and group permission records of the resource base
DeleteBasePermissions(f) ==
    IF f.m.id \in DOMAIN f.rows
    THEN Log(DeleteGrants(f, f.rows[f.m.id].perms \ DatasetGrants(f.rows[f.m.id])),
             "perms.delete")
    ELSE Log(f, "perms.delete")

\* lines 549-569: the object permissions of the resource are deleted
DeleteObjectPermissions(f) == DeleteBasePermissions(DeleteDatasetPermissions(f))

\* lines 570-571: a backend that reports failure raises
RemovePermissionsBackend(f) ==
    IF Failed(f) THEN f
    ELSE IF "be.remove_permissions.false" \in f.faults
    THEN Raise(f, "be.remove_permissions.false")
    ELSE f

\* lines 546-571: the body of the transaction
RemovePermissionsTxn(f) ==
    RemovePermissionsBackend(Step(DeleteObjectPermissions(f), "be.remove_permissions"))

\* lines 574-578
RemovePermissionsFail(f) ==
    [SetDirtyState(SetProcessingState(Swallow(f), STATE_INVALID)) EXCEPT !.ret = 0]

\* lines 572-578
RemovePermissionsEnd(f) ==
    IF Failed(f) THEN RemovePermissionsFail(f)
    ELSE [SetProcessingState(f, STATE_PROCESSED) EXCEPT !.ret = 1]

\* lines 544-578, f.m is the resource
RemovePermissionsRun(f) == RemovePermissionsEnd(Rollback(f, RemovePermissionsTxn(f)))

RemovePermissions(f, uuid, inst) ==
    IF Resolve(f.rows, uuid, inst).id = 0 THEN [f EXCEPT !.ret = 0]
    ELSE RemovePermissionsRun(
           SetProcessingState(Enter(f, "remove_permissions", Resolve(f.rows, uuid, inst)),
                              STATE_RUNNING))

\* -------------------------------------------------------------- delete
\* lines 263-297: the cascades of a Dataset, each in its own try/except
DeleteDatasetCascadesAborting(f) ==
    Step(Step(Step(Step(f,
        "maplayers.delete"), "ratings.delete"), "uploads.delete"), "styles.delete")

DeleteDatasetCascades(f) ==
    SwallowedStep(SwallowedStep(SwallowedStep(SwallowedStep(f,
        "maplayers.delete"), "ratings.delete"), "uploads.delete"), "styles.delete")

\* lines 255-300: the cascades and the permission strip are those of a Dataset
DeleteCascades(f) ==
    IF Failed(f) \/ f.m.rtype # "Dataset" THEN f
    ELSE RemovePermissions(DeleteDatasetCascades(f), f.m.uuid, f.m)

\* lines 302-309
DeleteHarvester(f) == IF Failed(f) THEN f ELSE SwallowedStep(f, "harvester.update")

\* lines 310-313: _resource.get_real_instance().delete(); the concrete record
\* goes together with its base record; DoesNotExist is passed over
DeleteRealInstance(f) ==
    IF Failed(f) \/ "real.delete.DoesNotExist" \in f.faults THEN f
    ELSE IF "real.delete" \in f.faults THEN Raise(f, "real.delete")
    ELSE Log([f EXCEPT !.rows = RemoveIds(f.rows, {f.m.id})], "real.delete")

\* lines 314-316 and 319: what delete returns once the try block has ended
DeleteReturn(f) == [f EXCEPT !.ret = IF Failed(f) THEN 0 ELSE 1]

\* line 318: ResourceBase.objects.filter(uuid=uuid).delete()
DeleteFinally(f, uuid) ==
    Swallow(Log([f EXCEPT !.rows = RemoveIds(f.rows, ByUuid(f.rows, uuid))],
                "base.delete"))

\* lines 252-318, f.m is the resource
DeleteTry(f, uuid) ==
    DeleteFinally(
      DeleteReturn(
        DeleteRealInstance(
          DeleteHarvester(
            DeleteCascades(
              Step(SetProcessingState(f, STATE_RUNNING), "be.delete"))))),
      uuid)

\* line 251: _resource and ResourceBase.objects.filter(uuid=uuid).exists()
DeleteGuardNoCheck(f, r, uuid) == TRUE

DeleteGuard(f, r, uuid) == r.id # 0 /\ ByUuid(f.rows, uuid) # {}

\* lines 249-319; r is the resolved resource, uuid the uuid of line 250
DeleteResolved(f, r, uuid) ==
    IF DeleteGuard(f, r, uuid)
    THEN DeleteTry(Enter(f, "delete", r), uuid)
    ELSE [Log(f, "delete") EXCEPT !.ret = 0]

\* line 250: uuid = uuid or _resource.uuid
DeleteBody(f, uuidArg, r) ==
    IF uuidArg = NoUuid /\ r.id = 0
    THEN Raise(Log(f, "delete"), "AttributeError")
    ELSE DeleteResolved(f, r, IF uuidArg # NoUuid THEN uuidArg ELSE r.uuid)

\* line 247: @transaction.atomic
Delete(f, uuidArg, inst) ==
    Rollback(f, DeleteBody(f, uuidArg, Resolve(f.rows, uuidArg, inst)))

\* -------------------------------------------------------------- create
\* lines 325-327: resource_type.objects.get_or_create(uuid=uuid, defaults);
\* ret tells whether the row was created
GetOrCreate(f, uuid, rtype) ==
    IF Cardinality(ByUuidType(f.rows, uuid, rtype)) = 1
    THEN [f EXCEPT !.m = f.rows[CHOOSE i \in ByUuidType(f.rows, uuid, rtype) : TRUE],
                   !.ret = 0]
    ELSE IF ByUuidType(f.rows, uuid, rtype) # {}
    THEN Raise(f, "MultipleObjectsReturned")
    ELSE Log([f EXCEPT !.rows = PutRow(f.rows, NewRow(f.nextId, uuid, rtype)),
                       !.nextId = @ + 1,
                       !.m = NewRow(f.nextId, uuid, rtype),
                       !.ret = 1],
             "insert")

\* lines 331-333
CreateTxn(f) == Step(Step(f, "set_missing_info"), "be.create")

\* line 334
CreateProcessed(f) ==
    IF Failed(f) THEN f ELSE SetProcessingState(f, STATE_PROCESSED)

\* lines 335-338: the compensating delete, then the failure is raised again
CreateFailNoDelete(f) == f

CreateFailMarked(f) ==
    [Delete(SetDirtyState(SetProcessingState(Swallow(f), STATE_INVALID)),
            f.m.uuid, f.m)
       EXCEPT !.exc = f.exc, !.ret = 0]

CreateFail(f) == [Delete(Swallow(f), f.m.uuid, f.m) EXCEPT !.exc = f.exc, !.ret = 0]

\* lines 335-340
CreateEnd(f) ==
    IF Failed(f) THEN CreateFail(f)
    ELSE [Step(f, "post_save") EXCEPT !.ret = f.m.id]

\* lines 328-340, the row was created
CreateNew(f) ==
    CreateEnd(CreateProcessed(Rollback(f, CreateTxn(f))))

\* lines 328 and 340
CreateCreated(f) ==
    IF Failed(f) THEN f
    ELSE IF f.ret = 1 THEN CreateNew(SetProcessingState(f, STATE_RUNNING))
    ELSE [f EXCEPT !.ret = f.m.id]

\* lines 322-323
CreateExisting(f, uuid, rtype) ==
    IF Cardinality(ByUuidType(f.rows, uuid, rtype)) = 1
    THEN [f EXCEPT !.m = f.rows[CHOOSE i \in ByUuidType(f.rows, uuid, rtype) : TRUE],
                   !.ret = f.rows[CHOOSE i \in ByUuidType(f.rows, uuid, rtype) : TRUE].id]
    ELSE Raise(f, "MultipleObjectsReturned")

\* uuidArg is the argument, fresh the value str(uuid1()) would take
Create(f, uuidArg, fresh, rtype) ==
    IF ByUuidType(f.rows, uuidArg, rtype) # {}
    THEN CreateExisting(Log(f, "create"), uuidArg, rtype)
    ELSE CreateCreated(
           GetOrCreate(Log(f, "create"),
                       IF uuidArg # NoUuid THEN uuidArg ELSE fresh, rtype))

\* -------------------------------------------------------------- update
\* lines 363-366: the uuid of the document must be the expected one when one
\* was passed
UpdateCheckUuidSkipped(f, uuidArg, parsed) == f

UpdateCheckUuid(f, uuidArg, parsed) ==
    IF Failed(f) THEN f
    ELSE IF uuidArg # NoUuid /\ uuidArg # parsed THEN Raise(f, "ValidationError")
    ELSE f

\* lines 352-366: the uploaded metadata document is read and parsed
UpdateParse(f, uuidArg, md, parsed) ==
    IF md
    THEN UpdateCheckUuid(Step(Step(f, "md.open"), "parse_metadata"), uuidArg, parsed)
    ELSE f

\* update_resource(instance, vals, regions, keywords): the fields named by
\* vals are set on the instance and stored
UpdateResource(f, vals) ==
    IF Failed(f) THEN f
    ELSE IF "update_resource" \in f.faults THEN Raise(f, "update_resource")
    ELSE Log([f EXCEPT !.m.vals = @ \cup vals,
                       !.rows = PutRow(f.rows,
                                  [f.m EXCEPT !.vals = @ \cup vals,
                                              !.perms = IF f.m.id \in DOMAIN f.rows
                                                        THEN f.rows[f.m.id].perms
                                                        ELSE {}])],
             "update_resource")

\* lines 351-379: the body of the transaction
UpdateTxn(f, uuidArg, md, parsed, vals) ==
    Step(Step(Step(
      UpdateResource(Save(UpdateParse(f, uuidArg, md, parsed)), vals),
      "be.update"), "metadata_storers"), "task.execute")

\* line 381: _resource.save(notify=notify)
SaveNotify(f) == IF "save.notify" \in f.faults THEN Raise(f, "save.notify") ELSE Save(f)

\* lines 380-381
UpdateDone(f) ==
    IF Failed(f) THEN f ELSE SaveNotify(SetProcessingState(f, STATE_PROCESSED))

\* lines 382-385
UpdateFailNoDirty(f) == SetProcessingState(Swallow(f), STATE_INVALID)

UpdateFail(f) == SetDirtyState(SetProcessingState(Swallow(f), STATE_INVALID))

\* lines 382-387
UpdateEnd(f) ==
    IF Failed(f) THEN Step(UpdateFail(f), "post_save") ELSE Step(f, "post_save")

UpdateReturn(f) == IF Failed(f) THEN f ELSE [f EXCEPT !.ret = f.m.id]

\* with transaction.atomic() of line 351
UpdateAtomicNoRollback(before, after) == after

UpdateAtomic(before, after) == Rollback(before, after)

\* lines 348-387, after set_missing_info
UpdateTry(f, uuidArg, md, parsed, vals) ==
    IF Failed(f) THEN f
    ELSE UpdateReturn(UpdateEnd(UpdateDone(
           UpdateAtomic(f, UpdateTxn(f, uuidArg, md, parsed, vals)))))

\* lines 345-387, r is the resolved resource
UpdateResolved(f, r, uuidArg, md, parsed, vals) ==
    IF r.id = 0 THEN [Enter(f, "update", NoInstance) EXCEPT !.ret = 0]
    ELSE UpdateTry(
           Step(SetProcessingState(Enter(f, "update", r), STATE_RUNNING),
                "set_missing_info"),
           uuidArg, md, parsed, vals)

Update(f, uuidArg, inst, md, parsed, vals) ==
    UpdateResolved(f, Resolve(f.rows, uuidArg, inst), uuidArg, md, parsed, vals)

\* ------------------------------------------------------- set_thumbnail
\* lines 925-926; wanted: the resource has files, and overwrite is set or its
\* thumbnail is the placeholder.  The test is made on the instance argument,
\* not on the resolved resource
InstanceDocThumb(inst, wanted) == inst.id # 0 /\ inst.rtype = "Document" /\ wanted

\* lines 925-928; docThumb: the test of lines 925-926 passed
DocumentThumbnail(f, docThumb) ==
    IF docThumb THEN Step(f, "create_document_thumbnail") ELSE f

\* lines 924-929: the body of the transaction
SetThumbnailTxn(f, docThumb) == Step(DocumentThumbnail(f, docThumb), "be.set_thumbnail")

\* lines 932-934
SetThumbnailFail(f) == [Swallow(f) EXCEPT !.ret = 0]

\* lines 930-934
SetThumbnailEnd(f) ==
    IF Failed(f) THEN SetThumbnailFail(f)
    ELSE [SetProcessingState(f, STATE_PROCESSED) EXCEPT !.ret = 1]

\* lines 922-934, f.m is the resource
SetThumbnailRun(f, docThumb) == SetThumbnailEnd(Rollback(f, SetThumbnailTxn(f, docThumb)))

SetThumbnail(f, uuidArg, inst, wanted) ==
    IF Resolve(f.rows, uuidArg, inst).id = 0
    THEN [Log(f, "set_thumbnail") EXCEPT !.ret = 0]
    ELSE SetThumbnailRun(
           SetProcessingState(Enter(f, "set_thumbnail", Resolve(f.rows, uuidArg, inst)),
                              STATE_RUNNING),
           InstanceDocThumb(inst, wanted))

\* ----------------------------------------------------- set_permissions
AnonymousUser == "AnonymousUser"
AnonymousGroup == "anonymous"
NoOwner == "none"

\* geonode.security.permissions
DOWNLOAD_PERMISSIONS == {"download_resourcebase"}
DATASET_EDIT_DATA_PERMISSIONS == {"change_dataset_data"}
DOWNLOADABLE_RESOURCES == {"Dataset", "Document"}
DATA_EDITABLE_RESOURCES_SUBTYPES == {"vector", "vector_time"}

\* lines 590-595
assignable_perm_condition(perm, resource_type) ==
    \/ perm \in DOWNLOAD_PERMISSIONS /\ resource_type \in DOWNLOADABLE_RESOURCES
    \/ perm \in DATASET_EDIT_DATA_PERMISSIONS
       /\ resource_type \in DATA_EDITABLE_RESOURCES_SUBTYPES
    \/ perm \notin DOWNLOAD_PERMISSIONS \cup DATASET_EDIT_DATA_PERMISSIONS

\* lines 657-667: the two branches under which a permission of a perm spec is
\* assigned; the permissions of a dataset do not go through the condition
Assigned(perm, resource_type) ==
    \/ resource_type = "Dataset" /\ perm \in DatasetPerms
    \/ assignable_perm_condition(perm, resource_type)

\* lines 598-601: a new owner is set on the instance and on the records that
\* carry its uuid
SetOwner(f, owner) ==
    IF Failed(f) \/ owner = NoOwner \/ owner = f.m.owner THEN f
    ELSE Log([f EXCEPT !.m.owner = owner,
                       !.rows = [i \in DOMAIN f.rows |->
                                   IF f.rows[i].uuid = f.m.uuid
                                   THEN [f.rows[i] EXCEPT !.owner = owner]
                                   ELSE f.rows[i]]],
             "owner.update")

\* geonode.security.permissions: what the owner of a resource is given
OWNER_PERMISSIONS ==
    {"view_resourcebase", "download_resourcebase", "change_resourcebase_permissions",
     "publish_resourcebase"}

\* set_owner_permissions(_resource, members): the grants of the owner, those
\* that the type of the resource supports
OwnerGrants(resource_type) ==
    {<<"owner", p>> : p \in {q \in OWNER_PERMISSIONS :
                                assignable_perm_condition(q, resource_type)}}

\* a group of the owner: get_user_groups(_owner)
OwnerGroup == "group"

\* lines 630-702: the grants of a perm spec: an entry of the anonymous user is
\* assigned to the anonymous group and to the anonymous user, the entries of
\* the owner are passed over
ExplicitGrants(permissions, resource_type) ==
    {g \in permissions.grants : g[1] # "owner" /\ Assigned(g[2], resource_type)}
    \cup {<<AnonymousGroup, g[2]>> : g \in {h \in permissions.grants :
                 h[1] = AnonymousUser /\ Assigned(h[2], resource_type)}}

\* lines 703-748: the default grants: view and download go to the anonymous
\* group when the settings say so and to the groups of the owner when not; the
\* owner of a Dataset is given the data edit permission
DefaultGrantsDownloadUngated(resource_type) ==
    {<<AnonymousGroup, "view_resourcebase">>, <<AnonymousGroup, "download_resourcebase">>}

DefaultGrants(resource_type) ==
    {<<IF settings.DEFAULT_ANONYMOUS_VIEW_PERMISSION THEN AnonymousGroup
       ELSE OwnerGroup, "view_resourcebase">>}
    \cup (IF assignable_perm_condition("download_resourcebase", resource_type)
          THEN {<<IF settings.DEFAULT_ANONYMOUS_DOWNLOAD_PERMISSION
                  THEN AnonymousGroup ELSE OwnerGroup, "download_resourcebase">>}
          ELSE {})
    \cup (IF resource_type = "Dataset"
          THEN {<<"owner", "change_dataset_data">>} ELSE {})

\* line 610
Grants(permissions, resource_type) ==
    IF permissions.keys # {} THEN ExplicitGrants(permissions, resource_type)
    ELSE DefaultGrants(resource_type)

AssignPerm(f, grants, ev) ==
    Log([f EXCEPT !.rows = IF f.m.id \in DOMAIN f.rows
                           THEN [f.rows EXCEPT ![f.m.id].perms = @ \cup grants]
                           ELSE f.rows],
        ev)

\* lines 634-641 and 656, 673: the principals of the spec are looked up, an
\* unknown user or group raises
LookupPrincipals(f, permissions) ==
    IF "principal.get" \in f.faults /\ permissions.grants # {}
    THEN Raise(f, "DoesNotExist")
    ELSE f

\* line 750, the default branch: handle_moderated_uploads() takes the approval
\* and the publication from the instance when the workflow asks for them
HandleModeratedUploads(f, permissions) ==
    IF permissions.keys # {} THEN f
    ELSE [f EXCEPT !.m.is_approved = @ /\ ~settings.ADMIN_MODERATE_UPLOADS,
                   !.m.is_published = @ /\ ~settings.RESOURCE_PUBLISHING]

\* lines 610-750: the grants are assigned one by one
AssignSpec(f, permissions) ==
    IF Failed(f) THEN f
    ELSE HandleModeratedUploads(
           AssignPerm(f, Grants(permissions, f.m.rtype), "assign_perm"), permissions)

AssignGrants(f, permissions) ==
    IF Failed(f) THEN f
    ELSE AssignSpec(LookupPrincipals(AssignPerm(f, OwnerGrants(f.m.rtype), "set_owner_permissions"),
                                     permissions),
                    permissions)

\* lines 752-756: a backend that reports failure is only logged
BackendSetPermissionsRaises(f) ==
    IF Failed(f) THEN f
    ELSE IF "be.set_permissions.false" \in f.faults
    THEN Raise(f, "be.set_permissions.false")
    ELSE Step(f, "be.set_permissions")

BackendSetPermissions(f) ==
    IF Failed(f) THEN f
    ELSE IF "be.set_permissions.false" \in f.faults
    THEN Log(f, "be.set_permissions.false")
    ELSE Step(f, "be.set_permissions")

\* lines 587-756: the body of the transaction; the outcome of the permission
\* removal of line 608 is not looked at
\* copy.deepcopy(permissions): perm_spec is the object the operation works on,
\* caller the object of the caller, aliased tells whether they are one object
DeepCopyAliased(permissions) ==
    [perm_spec |-> permissions, caller |-> permissions, aliased |-> TRUE]

DeepCopy(permissions) ==
    [perm_spec |-> permissions, caller |-> permissions, aliased |-> FALSE]

SetPermissionsRemove(f, uuidArg) ==
    IF Failed(f) THEN f ELSE RemovePermissions(f, uuidArg, f.m)

SetPermissionsTxn(f, uuidArg, owner, permissions) ==
    BackendSetPermissions(
      AssignGrants(SetPermissionsRemove(SetOwner(f, owner), uuidArg), permissions))

\* lines 759-762
SetPermissionsFail(f) ==
    [SetDirtyState(SetProcessingState(Swallow(f), STATE_INVALID)) EXCEPT !.ret = 0]

\* lines 757-763
SetPermissionsEnd(f) ==
    IF Failed(f) THEN SetPermissionsFail(f)
    ELSE [SetProcessingState(f, STATE_PROCESSED) EXCEPT !.ret = 1]

\* with transaction.atomic() of line 587
SetPermissionsAtomicNoRollback(before, after) == after

SetPermissionsAtomic(before, after) == Rollback(before, after)

\* lines 583-763, f.m is the resource
SetPermissionsRun(f, uuidArg, owner, permissions) ==
    SetPermissionsEnd(
      SetPermissionsAtomic(f, SetPermissionsTxn(f, uuidArg, owner, permissions)))

SetPermissions(f, uuidArg, inst, owner, permissions) ==
    IF Resolve(f.rows, uuidArg, inst).id = 0
    THEN [Log(f, "set_permissions") EXCEPT !.ret = 0]
    ELSE SetPermissionsRun(
           SetProcessingState(
             [Enter(f, "set_permissions", Resolve(f.rows, uuidArg, inst))
                EXCEPT !.spec = DeepCopy(permissions).perm_spec,
                       !.caller = DeepCopy(permissions).caller],
             STATE_RUNNING),
           uuidArg, owner, permissions)

\* -------------------------------------------------------------- ingest
\* lines 397-398
IngestCopyFiles(f, files) == IF files THEN Step(f, "copy_files_list") ELSE f

\* create as ingest calls it: nothing is called once a step has thrown
IngestCallCreate(f, uuidArg, fresh, rtype) ==
    IF Failed(f) THEN f ELSE Create(f, uuidArg, fresh, rtype)

\* lines 396-409: the resource is created for a Document, and for a Dataset
\* that comes with files
IngestCreate(f, files, uuidArg, fresh, rtype) ==
    IF rtype = "Document"
    THEN IngestCallCreate(IngestCopyFiles(f, files), uuidArg, fresh, rtype)
    ELSE IF rtype = "Dataset" /\ files
    THEN Create(f, uuidArg, fresh, rtype)
    ELSE f

\* lines 417-418
IngestProcessed(f) ==
    IF Failed(f) THEN f ELSE Save(SetProcessingState(f, STATE_PROCESSED))

\* lines 410-418; instance stays None when create raises
IngestBackend(f) ==
    IF Failed(f) THEN [f EXCEPT !.m = NoInstance]
    ELSE IF f.m.id = 0 THEN f
    ELSE IngestProcessed(Step(Step(f, "copy_files_list"), "be.ingest"))

\* lines 395-418: the body of the transaction
IngestTxn(f, files, uuidArg, fresh, rtype) ==
    IngestBackend(IngestCreate(f, files, uuidArg, fresh, rtype))

\* lines 419-423
IngestFail(f) ==
    IF ~Failed(f) \/ f.m.id = 0 THEN Swallow(f)
    ELSE SetDirtyState(SetProcessingState(Swallow(f), STATE_INVALID))

\* lines 429-430
IngestUpdate(f) ==
    IF Failed(f) THEN f ELSE Update(f, f.m.uuid, f.m, FALSE, NoUuid, {"title"})

IngestThumbnail(f, docThumb) ==
    IF Failed(f) THEN f ELSE SetThumbnail(f, f.m.uuid, f.m, docThumb)

IngestReturn(f) == IF Failed(f) THEN f ELSE [f EXCEPT !.ret = f.m.id]

\* lines 424-431
IngestFinalize(f, docThumb) ==
    IF f.m.id = 0 THEN [f EXCEPT !.ret = 0]
    ELSE IngestReturn(IngestThumbnail(IngestUpdate(Step(f, "post_save")), docThumb))

Ingest(f, files, uuidArg, fresh, rtype, docThumb) ==
    IngestFinalize(
      IngestFail(Rollback(Log(f, "ingest"),
                          IngestTxn(Log(f, "ingest"), files, uuidArg, fresh, rtype))),
      docThumb)

\* ---------------------------------------------------------------- copy
\* instance.set_processing_state(state) on the source of the copy
CopySourceState(f, src, state) ==
    Log([f EXCEPT !.rows = IF src.id \in DOMAIN f.rows
                           THEN [f.rows EXCEPT ![src.id].state = state]
                           ELSE f.rows],
        state)

\* line 439: get_all_level_info(), the perm spec that holds the grants of the
\* source
CopyCapturePerms(f, src) ==
    Step([f EXCEPT !.spec = PermSpec(IF src.id \in DOMAIN f.rows
                                     THEN f.rows[src.id].perms ELSE {})],
         "get_all_level_info")

\* lines 440-443: the clone is the source with no primary key and with the new
\* uuid, saved as a new record; it holds no grant yet
CopyClone(f, src, uuid) ==
    IF Failed(f) THEN f
    ELSE IF "clone.save" \in f.faults THEN Raise(f, "clone.save")
    ELSE Log([f EXCEPT !.rows = PutRow(f.rows,
                                  [src EXCEPT !.id = f.nextId, !.uuid = uuid,
                                              !.state = STATE_RUNNING,
                                              !.perms = {}]),
                       !.nextId = @ + 1,
                       !.m = [src EXCEPT !.id = f.nextId, !.uuid = uuid,
                                         !.state = STATE_RUNNING, !.perms = {}]],
             "clone.save")

\* lines 437-463: the body of the try block
CopyTry(f, src, uuid) ==
    Step(Step(Step(
      CopyClone(CopyCapturePerms(CopySourceState(f, src, STATE_RUNNING), src),
                src, uuid),
      "clone_dependents"), "storage.copy"), "be.copy")

\* lines 464-466
CopyExcept(f) == IF Failed(f) THEN [Swallow(f) EXCEPT !.m = NoInstance] ELSE f

\* lines 467-469: the source is marked PROCESSED and saved
CopyFinally(f, src) ==
    Log([f EXCEPT !.rows = IF src.id \in DOMAIN f.rows
                           THEN PutRow(f.rows,
                                  [src EXCEPT !.state = STATE_PROCESSED,
                                              !.perms = f.rows[src.id].perms])
                           ELSE f.rows],
        STATE_PROCESSED)

\* lines 476-482: the entries of the anonymous user and of the anonymous group
\* are taken out of the captured perm spec
CopyStripAnonymousGroupKept(permissions) ==
    [permissions EXCEPT !.grants = {g \in @ : g[1] # AnonymousUser}]

CopyStripAnonymous(permissions) ==
    [permissions EXCEPT !.grants = {g \in @ : g[1] \notin {AnonymousUser, AnonymousGroup}}]

\* line 483
CopySetPermissions(f, owner) ==
    IF Failed(f) THEN f
    ELSE SetPermissions(f, f.m.uuid, f.m, owner, CopyStripAnonymous(f.spec))

\* line 484: the fields that storage gave, then defaults without 'user'
CopyUpdate(f, defaults) ==
    IF Failed(f) THEN f
    ELSE Update(f, f.m.uuid, f.m, FALSE, NoUuid, ({"files"} \cup defaults) \ {"user"})

\* lines 471-472
CopyProcessed(f) == Save(SetProcessingState(f, STATE_PROCESSED))

\* lines 470-485: the clone is finished when there is one, the source is
\* returned when there is none
CopyResult(f, src, owner, defaults) ==
    IF f.m.id # 0
    THEN CopyUpdate(CopySetPermissions(CopyProcessed(f), owner), defaults)
    ELSE [f EXCEPT !.ret = src.id]

\* uuidArg is the argument, fresh the value str(uuid1()) would take
Copy(f, src, uuidArg, fresh, owner, defaults) ==
    IF src.id = 0 THEN [Log(f, "copy") EXCEPT !.ret = 0]
    ELSE CopyResult(
           CopyFinally(
             CopyExcept(CopyTry(Log(f, "copy"), src,
                                IF uuidArg # NoUuid THEN uuidArg ELSE fresh)),
             src),
           src, IF owner # NoOwner THEN owner ELSE src.owner, defaults)

\* -------------------------------------------------- append and replace
\* lines 521-524: exists is what the backend answers, vector what is_vector()
\* answers; is_valid has no value when the dataset is not a vector one
ValidateExistingIgnored(f, action_type, vector, exists) == f

ValidateExisting(f, action_type, vector, exists) ==
    IF Failed(f) THEN f
    ELSE IF exists /\ action_type = "append"
    THEN (IF vector THEN f ELSE Raise(f, "UnboundLocalError"))
    ELSE IF exists /\ action_type = "replace" THEN f
    ELSE Raise(f, "ObjectDoesNotExist")

\* lines 509-526, f.m is the instance
ValidateResource(f, action_type, vector, exists) ==
    IF f.m.id = 0 THEN Raise(f, "AttributeError")
    ELSE IF f.m.rtype # "Dataset" /\ action_type = "append" THEN Raise(f, "Exception")
    ELSE IF f.m.rtype = "Document" /\ action_type = "replace" THEN f
    ELSE ValidateExisting(Step(f, "be.exists"), action_type, vector, exists)

\* lines 490-494: to_update is vals without 'user'
AppendUpdateWithUser(f, vals) ==
    IF Failed(f) THEN f
    ELSE Update(f, f.m.uuid, f.m, FALSE, NoUuid, vals)

AppendUpdate(f, vals) ==
    IF Failed(f) THEN f
    ELSE Update(f, f.m.uuid, f.m, FALSE, NoUuid, vals \ {"user"})

\* append; Sequences has the name Append
AppendDataset(f, inst, vals, vector, exists) ==
    AppendUpdate(
      Step(ValidateResource(Enter(f, "append", inst), "append", vector, exists),
           "be.append"),
      vals)

\* lines 499-500: the files are replaced in storage when vals names some
ReplaceFiles(f, vals) == IF "files" \in vals THEN Step(f, "storage.replace") ELSE f

Replace(f, inst, vals, exists) ==
    AppendUpdate(
      Step(ReplaceFiles(ValidateResource(Enter(f, "replace", inst), "replace",
                                         FALSE, exists),
                        vals),
           "be.replace"),
      vals)

\* ---------------------------------------------- get_workflow_permissions
\* geonode.security.permissions
VIEW_PERMISSIONS == {"view_resourcebase"}
ADMIN_PERMISSIONS == {"change_resourcebase_permissions", "publish_resourcebase"}

\* groups_settings.REGISTERED_MEMBERS_GROUP_NAME
RegisteredMembersGroup == "registered-members"

\* perm_spec[...].get(principal, [])
Entry(permissions, principal) == {g[2] : g \in {h \in permissions.grants : h[1] = principal}}

\* perm_spec[...][principal] = perms, written to the object of the caller too
\* when the two are one object
SetEntry(w, principal, perms) ==
    [w EXCEPT !.perm_spec.grants = {g \in @ : g[1] # principal}
                                   \cup {<<principal, p>> : p \in perms},
              !.caller.grants = IF w.aliased
                                THEN {g \in @ : g[1] # principal}
                                     \cup {<<principal, p>> : p \in perms}
                                ELSE @]

\* perm_spec[...][principal] = list(set(prev_perms + perms))
UnionEntryOverwrites(w, principal, perms) == SetEntry(w, principal, perms)

UnionEntry(w, principal, perms) ==
    SetEntry(w, principal, Entry(w.perm_spec, principal) \cup perms)

\* lines 840-847: the perm spec of the caller when there is one, the grants of
\* the resource when there is none, copied
WorkflowIncoming(r, permissions) ==
    IF permissions.keys # {} THEN DeepCopy(permissions)
    ELSE [DeepCopy(PermSpec(r.perms)) EXCEPT !.caller = permissions]

\* lines 853-867: the keys users and groups are there
WorkflowSanity(w) ==
    [w EXCEPT !.perm_spec.keys = {"users", "groups"},
              !.caller.keys = IF w.aliased THEN {"users", "groups"} ELSE @]

\* lines 874-877
view_perms(resource_type) ==
    IF resource_type \notin DOWNLOADABLE_RESOURCES THEN VIEW_PERMISSIONS
    ELSE VIEW_PERMISSIONS \cup DOWNLOAD_PERMISSIONS

\* lines 880-892: _resource.get_group_managers(user_groups) gives the manager
\* of the groups of the owner when the owner has groups
WorkflowManagers(w, r, grouped) ==
    IF grouped THEN UnionEntry(w, "manager", view_perms(r.rtype) \cup ADMIN_PERMISSIONS)
    ELSE w

\* lines 896-899: a group that get_group_managers names is given view; the
\* anonymous and the registered members group are passed over
WorkflowMember(w, gr, grouped) ==
    IF grouped /\ gr \notin {AnonymousGroup, RegisteredMembersGroup}
    THEN UnionEntry(w, gr, VIEW_PERMISSIONS)
    ELSE w

\* lines 894-900: get_group_managers names the group of the owner and the
\* anonymous group
WorkflowMembers(w, grouped) ==
    WorkflowMember(WorkflowMember(w, OwnerGroup, grouped), AnonymousGroup, grouped)

\* lines 902-909
WorkflowApproved(w, r) ==
    IF ~r.is_approved THEN w
    ELSE IF settings.AUTO_ASSIGN_REGISTERED_MEMBERS_TO_REGISTERED_MEMBERS_GROUP_NAME
    THEN UnionEntry(w, RegisteredMembersGroup, view_perms(r.rtype))
    ELSE UnionEntry(w, AnonymousGroup, view_perms(r.rtype))

\* lines 911-913
WorkflowPublished(w, r) ==
    IF r.is_published THEN UnionEntry(w, AnonymousGroup, view_perms(r.rtype)) ELSE w

\* lines 873-913
WorkflowPolicy(w, r, grouped) ==
    IF settings.ADMIN_MODERATE_UPLOADS \/ settings.RESOURCE_PUBLISHING
    THEN WorkflowPublished(
           WorkflowApproved(WorkflowMembers(WorkflowManagers(w, r, grouped), grouped), r),
           r)
    ELSE w

\* line 915: the perm spec is handed to the backend, which gives it back
WorkflowBackend(f, w) ==
    [Step([f EXCEPT !.spec = w.perm_spec, !.caller = w.caller],
          "be.get_workflow_permissions")
       EXCEPT !.ret = 1]

\* lines 836-917; grouped tells whether the owner of the resource has groups
GetWorkflowPermissions(f, uuidArg, inst, permissions, grouped) ==
    IF Resolve(f.rows, uuidArg, inst).id = 0
    THEN [Log(f, "get_workflow_permissions")
            EXCEPT !.spec = IF permissions.keys # {} THEN permissions ELSE NoPermSpec,
                   !.caller = permissions]
    ELSE WorkflowBackend(
           Enter(f, "get_workflow_permissions", Resolve(f.rows, uuidArg, inst)),
           WorkflowPolicy(
             WorkflowSanity(WorkflowIncoming(Resolve(f.rows, uuidArg, inst), permissions)),
             Resolve(f.rows, uuidArg, inst), grouped))

\* ---------------------------------------------------------------- exec
\* lines 531-532: there is a resource and the backend has the method
ExecGuardNoHasattr(r, has) == r.id # 0

ExecGuard(r, has) == r.id # 0 /\ has

\* lines 530-535; has tells whether hasattr(backend, method) holds, the method
\* of the backend gives the resource back
ExecBody(f, r, inst, has) ==
    IF ExecGuard(r, has)
    THEN [Step(Enter(f, "exec", r), "be.exec") EXCEPT !.ret = r.id]
    ELSE [Log(f, "exec") EXCEPT !.ret = inst.id]

\* line 528: @transaction.atomic
Exec(f, has, uuidArg, inst) ==
    Rollback(f, ExecBody(f, Resolve(f.rows, uuidArg, inst), inst, has))

\* ------------------------------------------------------------- actions
RECURSIVE UpTo(_, _)
\* the subsets of steps of at most k elements
UpTo(steps, k) ==
    IF k = 0 THEN {{}}
    ELSE UpTo(steps, k - 1) \cup {A \cup {x} : A \in UpTo(steps, k - 1), x \in steps}

FaultSets(steps) == UpTo(steps, MaxFaults)

RemovePermissionsSteps == {"be.remove_permissions", "be.remove_permissions.false"}

DeleteSteps(rtype) ==
    {"be.delete", "harvester.update", "real.delete", "real.delete.DoesNotExist"}
    \cup (IF rtype = "Dataset"
          THEN {"maplayers.delete", "ratings.delete", "uploads.delete",
                "styles.delete"} \cup RemovePermissionsSteps
          ELSE {})

CreateSteps == {"set_missing_info", "be.create"}

\* the steps of update that end its try block, the first to throw ends it
UpdateTrySteps(md) ==
    {"save", "update_resource", "be.update", "metadata_storers", "task.execute",
     "save.notify"}
    \cup (IF md THEN {"md.open", "parse_metadata"} ELSE {})

SetThumbnailSteps(docThumb) ==
    {"be.set_thumbnail"} \cup (IF docThumb THEN {"create_document_thumbnail"} ELSE {})

SetPermissionsSteps(permissions) ==
    {"be.set_permissions", "be.set_permissions.false"} \cup RemovePermissionsSteps
    \cup (IF permissions.grants = {} THEN {} ELSE {"principal.get"})

\* the steps a call runs at most one of: when one throws, the others are not
\* reached
AtMostOne(F, steps) == Cardinality(F \cap steps) <= 1

\* a step of create's transaction throws and the compensating delete runs,
\* with the steps of the delete that throw
CompensatedFaultSets(rtype) ==
    {{c} \cup D : c \in CreateSteps, D \in FaultSets(DeleteSteps(rtype))}

CreateFaultSets(rtype) == FaultSets({"post_save"}) \cup CompensatedFaultSets(rtype)

UpdateFaultSets(md) ==
    {F \in FaultSets(UpdateTrySteps(md) \cup {"set_missing_info", "post_save"}) :
        /\ AtMostOne(F, UpdateTrySteps(md))
        /\ "set_missing_info" \in F => F = {"set_missing_info"}}

IngestSteps == {"copy_files_list", "be.ingest"}

\* ingest creates nothing for the other types and for a Dataset without files;
\* create inserts nothing when the resource is there
IngestFaultSets(files, uuid, rtype, docThumb) ==
    IF rtype = "Map" \/ (rtype = "Dataset" /\ ~files) THEN {{}}
    ELSE
    (IF ByUuidType(rows, uuid, rtype) # {} THEN {} ELSE CompensatedFaultSets(rtype))
    \cup {F \in FaultSets(IngestSteps \cup {"post_save"} \cup UpdateTrySteps(FALSE)
                          \cup SetThumbnailSteps(docThumb)) :
              /\ AtMostOne(F, IngestSteps)
              /\ AtMostOne(F, UpdateTrySteps(FALSE))}

\* the instance arguments a caller can hold: None or a resource of the store
Instances == {NoInstance} \cup {rows[i] : i \in DOMAIN rows}

\* the uuid arguments passed with an instance by the operations that hand the
\* uuid on to the backend only
UuidFor(inst) == IF inst.id = 0 THEN UuidArgs ELSE {inst.uuid}

\* perm specs: the empty one, and one with entries of a user, of the anonymous
\* user and of the anonymous group
PermSpecs ==
    {NoPermSpec,
     PermSpec({<<"user", "view_resourcebase">>, <<"user", "download_resourcebase">>,
               <<"user", "change_dataset_data">>,
               <<AnonymousUser, "view_resourcebase">>,
               <<AnonymousGroup, "download_resourcebase">>})}

OwnerArgs == {NoOwner, "bob"}

\* the arguments that only some operations take: owner and permissions, vals,
\* and what the instance and the backend answer when asked is_vector() and
\* exists()
Args(owner, permissions, vals, vector, exists) ==
    [owner |-> owner, permissions |-> permissions, vals |-> vals,
     vector |-> vector, exists |-> exists]

NoArgs == Args(NoOwner, NoPermSpec, {}, FALSE, FALSE)

\* the arguments of a call
Call(op, uuid, inst, rtype, md, parsed) ==
    [op |-> op, uuid |-> uuid, inst |-> inst.id, rtype |-> rtype, md |-> md,
     parsed |-> parsed]

\* what the caller sees of a call: its arguments, the store before it, what it
\* returned or raised, and the resource it worked on
Outcome(call, args, f) ==
    [call |-> call, args |-> args, before |-> rows, faults |-> f.faults,
     ret |-> f.ret, exc |-> f.exc, raised |-> f.raised, log |-> f.log,
     target |-> f.m, spec |-> f.spec, caller |-> f.caller]

NoCall ==
    Outcome(Call("idle", NoUuid, NoInstance, "None", FALSE, NoUuid), NoArgs, Frame({}))

\* a call is made when the previous call's outcome has been taken by its caller
Idle == last.call.op = "idle" /\ calls < MaxCalls

CommitWith(call, args, f) ==
    /\ rows' = f.rows
    /\ calls' = calls + 1
    /\ last' = Outcome(call, args, f)
    /\ UNCHANGED <<settings, worker, observed, db, command, creators>>

Commit(call, f) == CommitWith(call, NoArgs, f)

\* str(uuid1()): a uuid no resource carries
FreshFor(uuid) == IF uuid # NoUuid THEN {uuid} ELSE {u \in Uuids : ByUuid(rows, u) = {}}

CreateOp ==
    /\ Idle
    /\ \E uuid \in UuidArgs, rtype \in ResourceTypes :
         \E fresh \in FreshFor(uuid) :
           \E F \in IF ByUuidType(rows, uuid, rtype) # {} THEN {{}}
                    ELSE CreateFaultSets(rtype) :
             Commit(Call("create", uuid, NoInstance, rtype, FALSE, NoUuid),
                    Create(Frame(F), uuid, fresh, rtype))

DeleteOp ==
    /\ Idle
    /\ \E inst \in Instances, uuid \in UuidArgs :
         \E F \in IF Resolve(rows, uuid, inst).id = 0 THEN {{}}
                  ELSE FaultSets(DeleteSteps(Resolve(rows, uuid, inst).rtype)) :
           Commit(Call("delete", uuid, inst, "None", FALSE, NoUuid),
                  Delete(Frame(F), uuid, inst))

UpdateOp ==
    /\ Idle
    /\ \E inst \in Instances, uuid \in UuidArgs, md \in BOOLEAN :
         \E parsed \in IF md THEN Uuids ELSE {NoUuid} :
           \E F \in IF Resolve(rows, uuid, inst).id = 0 THEN {{}}
                    ELSE UpdateFaultSets(md) :
             Commit(Call("update", uuid, inst, "None", md, parsed),
                    Update(Frame(F), uuid, inst, md, parsed, {"title"}))

IngestOp ==
    /\ Idle
    /\ \E uuid \in UuidArgs, rtype \in ResourceTypes, files \in BOOLEAN :
         \E fresh \in FreshFor(uuid), docThumb \in {rtype = "Document" /\ files} :
           \E F \in IngestFaultSets(files, uuid, rtype, docThumb) :
             Commit(Call("ingest", uuid, NoInstance, rtype, files, NoUuid),
                    Ingest(Frame(F), files, uuid, fresh, rtype, docThumb))

RemovePermissionsOp ==
    /\ Idle
    /\ \E inst \in Instances :
         \E uuid \in UuidFor(inst) :
           \E F \in IF Resolve(rows, uuid, inst).id = 0 THEN {{}}
                    ELSE FaultSets(RemovePermissionsSteps) :
             Commit(Call("remove_permissions", uuid, inst, "None", FALSE, NoUuid),
                    RemovePermissions(Frame(F), uuid, inst))

SetPermissionsOp ==
    /\ Idle
    /\ \E inst \in Instances, permissions \in PermSpecs, owner \in OwnerArgs :
         \E uuid \in UuidFor(inst),
            vector \in IF inst.rtype = "Dataset" THEN BOOLEAN ELSE {FALSE} :
           \E F \in IF Resolve(rows, uuid, inst).id = 0 THEN {{}}
                    ELSE FaultSets(SetPermissionsSteps(permissions)) :
             CommitWith(Call("set_permissions", uuid, inst, "None", FALSE, NoUuid),
                        Args(owner, permissions, {}, vector, FALSE),
                        SetPermissions(Frame(F), uuid, inst, owner, permissions))

SetThumbnailOp ==
    /\ Idle
    /\ \E inst \in Instances :
         \E uuid \in UuidFor(inst) :
           \E wanted \in IF Resolve(rows, uuid, inst).rtype = "Document"
                         THEN BOOLEAN ELSE {FALSE} :
             \E F \in IF Resolve(rows, uuid, inst).id = 0 THEN {{}}
                      ELSE FaultSets(SetThumbnailSteps(InstanceDocThumb(inst, wanted))) :
               Commit(Call("set_thumbnail", uuid, inst, "None", wanted, NoUuid),
                      SetThumbnail(Frame(F), uuid, inst, wanted))

\* the steps of copy's try block, the first to throw ends it
CopySteps ==
    {"get_all_level_info", "clone.save", "clone_dependents", "storage.copy", "be.copy"}

\* the steps of copy, with one of the set_permissions and one of the update it
\* ends with
CopyFaultSets ==
    {F \in FaultSets(CopySteps \cup {"be.set_permissions", "update_resource"}) :
        AtMostOne(F, CopySteps)}

\* defaults of copy, with the acting user in it
CopyDefaults == {"abstract", "user"}

CopyOp ==
    /\ Idle
    /\ \E inst \in Instances, uuid \in UuidArgs, owner \in OwnerArgs :
         \E fresh \in FreshFor(uuid) :
           \E F \in IF inst.id = 0 THEN {{}} ELSE CopyFaultSets :
             CommitWith(Call("copy", uuid, inst, "None", FALSE, NoUuid),
                        Args(owner, NoPermSpec, CopyDefaults, FALSE, FALSE),
                        Copy(Frame(F), inst, uuid, fresh, owner, CopyDefaults))

\* vals of append and replace: with and without the acting user, with files
ValsArgs == {{"title"}, {"title", "user"}, {"files", "user"}}

\* the steps of append and of replace that throw, with one of the update
AppendSteps(action_type) ==
    {"be.exists", "update_resource"}
    \cup (IF action_type = "append" THEN {"be.append"}
          ELSE {"be.replace", "storage.replace"})

\* what is_vector() can answer for the instance
VectorFor(inst) == IF inst.rtype = "Dataset" THEN BOOLEAN ELSE {FALSE}

AppendOp ==
    /\ Idle
    /\ \E inst \in Instances, vals \in ValsArgs, exists \in BOOLEAN :
         \E vector \in VectorFor(inst) :
           \E F \in IF inst.rtype # "Dataset" THEN {{}}
                    ELSE FaultSets(AppendSteps("append")) :
             CommitWith(Call("append", inst.uuid, inst, "None", FALSE, NoUuid),
                        Args(NoOwner, NoPermSpec, vals, vector, exists),
                        AppendDataset(Frame(F), inst, vals, vector, exists))

ReplaceOp ==
    /\ Idle
    /\ \E inst \in Instances, vals \in ValsArgs, exists \in BOOLEAN :
         \E F \in IF inst.id = 0 THEN {{}} ELSE FaultSets(AppendSteps("replace")) :
           CommitWith(Call("replace", inst.uuid, inst, "None", FALSE, NoUuid),
                      Args(NoOwner, NoPermSpec, vals, FALSE, exists),
                      Replace(Frame(F), inst, vals, exists))

\* every configuration of the site
AllSettings ==
    {Settings(p, m, v, d, r) : p \in BOOLEAN, m \in BOOLEAN, v \in BOOLEAN,
                               d \in BOOLEAN, r \in BOOLEAN}

\* a store with one resource, of any type, approved or not, published or not
WorkflowStores ==
    {<<[NewRow(1, 1, t) EXCEPT !.is_approved = a, !.is_published = b]>> :
        t \in ResourceTypes, a \in BOOLEAN, b \in BOOLEAN}

\* set_permissions as the workflow claims call it: for a resource of the store
WorkflowSetPermissionsOp ==
    /\ Idle
    /\ \E inst \in Instances \ {NoInstance}, permissions \in PermSpecs :
         \E F \in FaultSets(IF permissions.grants = {} THEN {} ELSE {"principal.get"}) :
           CommitWith(Call("set_permissions", inst.uuid, inst, "None", FALSE, NoUuid),
                      Args(NoOwner, permissions, {}, FALSE, FALSE),
                      SetPermissions(Frame(F), inst.uuid, inst, NoOwner, permissions))

GetWorkflowPermissionsOp ==
    /\ Idle
    /\ \E inst \in Instances, permissions \in PermSpecs, grouped \in BOOLEAN :
         \E uuid \in UuidFor(inst) :
           \E F \in IF Resolve(rows, uuid, inst).id = 0 THEN {{}}
                    ELSE FaultSets({"be.get_workflow_permissions"}) :
             CommitWith(Call("get_workflow_permissions", uuid, inst, "None", grouped,
                             NoUuid),
                        Args(NoOwner, permissions, {}, FALSE, FALSE),
                        GetWorkflowPermissions(Frame(F), uuid, inst, permissions, grouped))

ExecOp ==
    /\ Idle
    /\ \E inst \in Instances, has \in BOOLEAN :
         \E uuid \in UuidFor(inst) :
           \E F \in IF ExecGuard(Resolve(rows, uuid, inst), has)
                    THEN FaultSets({"be.exec"}) ELSE {{}} :
             Commit(Call("exec", uuid, inst, "None", has, NoUuid),
                    Exec(Frame(F), has, uuid, inst))

\* the caller takes the outcome of the call and goes on
Return ==
    /\ last.call.op # "idle"
    /\ last' = NoCall
    /\ UNCHANGED <<rows, calls, settings, worker, observed, db, command, creators>>

Init ==
    /\ rows = <<>>
    /\ calls = 0
    /\ last = NoCall
    /\ settings = DefaultSettings
    /\ worker = NoWorker
    /\ observed = NoObservation
    /\ db = EmptyDb
    /\ command = NoCommand
    /\ creators = NoCreators

Next ==
    \/ CreateOp
    \/ UpdateOp
    \/ DeleteOp
    \/ IngestOp
    \/ RemovePermissionsOp
    \/ SetPermissionsOp
    \/ SetThumbnailOp
    \/ CopyOp
    \/ AppendOp
    \/ ReplaceOp
    \/ ExecOp
    \/ Return

Spec == Init /\ [][Next]_vars

\* the permission workflow: a site of any configuration with one resource, on
\* which permissions are set and workflow permissions are asked for
InitWorkflow ==
    /\ rows \in WorkflowStores
    /\ calls = 0
    /\ last = NoCall
    /\ settings \in AllSettings
    /\ worker = NoWorker
    /\ observed = NoObservation
    /\ db = EmptyDb
    /\ command = NoCommand
    /\ creators = NoCreators

NextWorkflow ==
    \/ WorkflowSetPermissionsOp
    \/ GetWorkflowPermissionsOp
    \/ Return

SpecWorkflow == InitWorkflow /\ [][NextWorkflow]_vars

\* ---------------------------------------------- interleaved operations
\* The operations that mark their resource RUNNING and open a transaction,
\* taken statement by statement while another operation reads the store.
\* rows is what is committed: what every other connection reads.  worker is
\* the operation under way: where it stands, the resource it works on and,
\* inside transaction.atomic(), the store as its own connection sees it.
InterleavedOps ==
    {"create", "update", "remove_permissions", "set_permissions", "set_thumbnail"}

\* the frame of a statement the worker executes outside its transaction: its
\* write is committed at once (autocommit)
WorkerFrame == [Frame({}) EXCEPT !.m = rows[worker.id]]

\* lines 321-327, 343-344, 542-543, 582-583, 920-921: the resource is resolved;
\* create inserts it with get_or_create
BeginOp ==
    /\ worker.pc = "idle"
    /\ calls < MaxCalls
    /\ \E op \in InterleavedOps, uuid \in Uuids, rtype \in ResourceTypes :
         IF op = "create"
         THEN /\ ByUuidType(rows, uuid, rtype) = {}
              /\ rows' = GetOrCreate(Frame({}), uuid, rtype).rows
              /\ worker' = [NoWorker EXCEPT !.pc = "resolved", !.op = op,
                                            !.id = FreeId(rows)]
         ELSE /\ GetInstance(rows, uuid).id # 0
              /\ GetInstance(rows, uuid).rtype = rtype
              /\ rows' = rows
              /\ worker' = [NoWorker EXCEPT !.pc = "resolved", !.op = op,
                                            !.id = GetInstance(rows, uuid).id]
    /\ UNCHANGED <<calls, last, settings, observed, db, command, creators>>

\* lines 328, 345, 544, 584, 922: _resource.set_processing_state(STATE_RUNNING)
MarkRunning ==
    /\ worker.pc = "resolved"
    /\ rows' = SetProcessingState(WorkerFrame, STATE_RUNNING).rows
    /\ worker' = [worker EXCEPT !.pc = "marked"]
    /\ UNCHANGED <<calls, last, settings, observed, db, command, creators>>

\* lines 330, 350, 546, 587, 924: with transaction.atomic()
EnterAtomic ==
    /\ worker.pc = "marked"
    /\ worker' = [worker EXCEPT !.pc = "body", !.atomic = TRUE, !.txn = rows]
    /\ UNCHANGED <<rows, calls, last, settings, observed, db, command, creators>>

\* what the body of the transaction writes: remove_permissions and
\* set_permissions delete the grants of the resource, set_permissions then
\* assigns those of the owner
BodyWrite(op, r) ==
    CASE op = "remove_permissions" -> [r EXCEPT !.perms = {}]
      [] op = "set_permissions" -> [r EXCEPT !.perms = OwnerGrants(r.rtype)]
      [] OTHER -> r

\* the body of the with block, which may raise
Body ==
    /\ worker.pc = "body"
    /\ \E failed \in BOOLEAN :
         worker' = [worker EXCEPT
                      !.pc = "leave", !.failed = failed,
                      !.txn = PutRow(@, BodyWrite(worker.op, worker.txn[worker.id]))]
    /\ UNCHANGED <<rows, calls, last, settings, observed, db, command, creators>>

\* the end of the with block: commit, or rollback when the body raised
LeaveAtomic ==
    /\ worker.pc = "leave"
    /\ rows' = Rollback([rows |-> rows, exc |-> "none"],
                        [rows |-> worker.txn,
                         exc |-> IF worker.failed THEN "body" ELSE "none"]).rows
    /\ worker' = [worker EXCEPT !.pc = "left", !.atomic = FALSE, !.txn = <<>>]
    /\ UNCHANGED <<calls, last, settings, observed, db, command, creators>>

\* the state the operation leaves when its transaction is over: PROCESSED
\* after a commit; after a rollback update, remove_permissions and
\* set_permissions mark the resource INVALID and dirty, create deletes it and
\* set_thumbnail only logs
Finished(op, failed) ==
    IF ~failed THEN SetProcessingState(WorkerFrame, STATE_PROCESSED).rows
    ELSE IF op = "create" THEN RemoveIds(rows, {worker.id})
    ELSE IF op = "set_thumbnail" THEN rows
    ELSE SetDirtyState(SetProcessingState(WorkerFrame, STATE_INVALID)).rows

\* lines 334-337, 371-376, 552-557, 757-762, 931-934
Finish ==
    /\ worker.pc = "left"
    /\ rows' = Finished(worker.op, worker.failed)
    /\ worker' = NoWorker
    /\ calls' = calls + 1
    /\ UNCHANGED <<last, settings, observed, db, command, creators>>

\* another operation resolves a resource (_get_instance) on its own connection
\* and reads its state, whatever the worker is doing
Observe ==
    /\ \E uuid \in Uuids :
         /\ GetInstance(rows, uuid).id # 0
         /\ observed' = [uuid |-> uuid, state |-> GetInstance(rows, uuid).state,
                         owner |-> IF GetInstance(rows, uuid).id = worker.id
                                   THEN worker.op ELSE "none",
                         atomic |-> GetInstance(rows, uuid).id = worker.id
                                    /\ worker.atomic]
    /\ UNCHANGED <<rows, calls, last, settings, worker, db, command, creators>>

InitInterleaved == Init

NextInterleaved ==
    \/ BeginOp
    \/ MarkRunning
    \/ EnterAtomic
    \/ Body
    \/ LeaveAtomic
    \/ Finish
    \/ Observe

SpecInterleaved == InitInterleaved /\ [][NextInterleaved]_vars

\* ------------------------------------------------------- load_thesaurus
\* geonode/base/management/commands/load_thesaurus.py.  A literal of the RDF
\* graph is its language tag ("None" when it has none) and its text, a string
\* taken as the sequence of its characters.
NoLanguage == "None"

Literal(language, text) == [language |-> language, text |-> text]

\* language.split("-")[0]
Primary(language) == IF language = "en-GB" THEN "en" ELSE language

\* the order of the sort keys of value_for_language: '' for no language, then
\* the language tags as strings
LangRank(language) ==
    CASE language = NoLanguage -> 0
      [] language = "en" -> 1
      [] language = "en-GB" -> 2
      [] OTHER -> 3

\* getattr(settings, 'THESAURUS_DEFAULT_LANG', None)
THESAURUS_DEFAULT_LANG == "en"

\* the value None of a skos:altLabel
NoAltLabel == <<>>

\* a concept of the graph: its URI, its skos:altLabel and its skos:prefLabel
\* literals
Concept(about, alt_label, labels) ==
    [about |-> about, alt_label |-> alt_label, labels |-> labels]

\* lines 173: sorted(available, key=language or ''), a stable sort
RECURSIVE SortedLang(_)
SortedLang(available) ==
    IF available = <<>> THEN <<>>
    ELSE SelectSeq(SortedLang(Tail(available)),
                   LAMBDA l : LangRank(l.language) < LangRank(Head(available).language))
         \o <<Head(available)>>
         \o SelectSeq(SortedLang(Tail(available)),
                      LAMBDA l : LangRank(l.language) >= LangRank(Head(available).language))

\* lines 174-178: the literals the loop returns at
Eligible(available, default_lang) ==
    SelectSeq(SortedLang(available),
              LAMBDA l : l.language = NoLanguage \/ Primary(l.language) = default_lang)

\* lines 172-179; available[0] of an empty list raises IndexError
value_for_language(available, default_lang) ==
    IF Eligible(available, default_lang) # <<>>
    THEN [exc |-> "none", value |-> Head(Eligible(available, default_lang)).text]
    ELSE IF available # <<>>
    THEN [exc |-> "none", value |-> available[1].text]
    ELSE [exc |-> "IndexError", value |-> <<>>]

\* Graph.preferredLabel(concept, lang): the prefLabel literals of that language
preferredLabel(concept, lang) ==
    SelectSeq(concept.labels, LAMBDA l : l.language = lang)

\* the state of a run of the command: the tables, the exception that ended it
ThesaurusFrame == [db |-> db, exc |-> "none", raised |-> <<>>]

\* model.save() of a new object: INSERT
Insert(t, table, row) ==
    IF Failed(t) THEN t ELSE [t EXCEPT !.db[table] = Append(@, row)]

\* if store: model.save()
InsertIfStore(t, store, table, row) == IF store THEN Insert(t, table, row) ELSE t

\* lines 90-98
LoadScheme(t, g, name, store) ==
    IF value_for_language(g.titles, THESAURUS_DEFAULT_LANG).exc # "none"
    THEN Raise(t, value_for_language(g.titles, THESAURUS_DEFAULT_LANG).exc)
    ELSE InsertIfStore(t, store, "Thesaurus",
           [identifier |-> name,
            title |-> value_for_language(g.titles, THESAURUS_DEFAULT_LANG).value])

\* lines 101-108: lang[0] and lang[1] are the first two characters of the text
LoadTitleLabel(t, lang, name, store) ==
    IF Failed(t) \/ lang.language = NoLanguage THEN t
    ELSE IF Len(lang.text) < 2 THEN Raise(t, "IndexError")
    ELSE InsertIfStore(t, store, "ThesaurusLabel",
           [thesaurus |-> name, lang |-> lang.text[1], label |-> lang.text[2]])

\* lines 100-108
RECURSIVE LoadTitleLabels(_, _, _, _)
LoadTitleLabels(t, titles, name, store) ==
    IF titles = <<>> THEN t
    ELSE LoadTitleLabels(LoadTitleLabel(t, Head(titles), name, store), Tail(titles),
                         name, store)

\* lines 131-144: "-" in lang raises TypeError when the label has no language
LoadKeywordLabel(t, concept, pref_label, store) ==
    IF Failed(t) THEN t
    ELSE IF pref_label.language = NoLanguage THEN Raise(t, "TypeError")
    ELSE InsertIfStore(t, store, "ThesaurusKeywordLabel",
           [keyword |-> concept.about, lang |-> Primary(pref_label.language),
            label |-> pref_label.text])

\* lines 130-144
RECURSIVE LoadKeywordLabels(_, _, _, _)
LoadKeywordLabels(t, concept, labels, store) ==
    IF labels = <<>> THEN t
    ELSE LoadKeywordLabels(LoadKeywordLabel(t, concept, Head(labels), store), concept,
                           Tail(labels), store)

\* lines 113-118
AltLabel(concept) ==
    IF concept.alt_label # NoAltLabel THEN concept.alt_label
    ELSE value_for_language(concept.labels, THESAURUS_DEFAULT_LANG).value

\* lines 111-128: [0][1] of no preferred label in the default language raises
LoadKeyword(t, concept, name, store) ==
    IF Failed(t) THEN t
    ELSE IF preferredLabel(concept, THESAURUS_DEFAULT_LANG) = <<>>
    THEN Raise(t, "IndexError")
    ELSE InsertIfStore(t, store, "ThesaurusKeyword",
           [thesaurus |-> name, about |-> concept.about,
            alt_label |-> AltLabel(concept)])

\* lines 110-144
RECURSIVE LoadConcepts(_, _, _, _)
LoadConcepts(t, concepts, name, store) ==
    IF concepts = <<>> THEN t
    ELSE LoadConcepts(
           LoadKeywordLabels(LoadKeyword(t, Head(concepts), name, store),
                             Head(concepts), Head(concepts).labels, store),
           Tail(concepts), name, store)

\* lines 72-144
load_thesaurus(t, input_file, name, store) ==
    IF input_file.kind = "unparsable" THEN Raise(t, "ParserError")
    ELSE IF input_file.schemes > 1 THEN Raise(t, "UniquenessError")
    ELSE IF input_file.schemes = 0 THEN Raise(t, "CommandError")
    ELSE LoadConcepts(
           LoadTitleLabels(LoadScheme(t, input_file, name, store), input_file.titles,
                           name, store),
           input_file.concepts, name, store)

FakeKeywords == <<"aaa", "bbb", "ccc">>

FakeLanguages == <<"it", "en", "es">>

\* lines 164-169
RECURSIVE FakeKeywordLabels(_, _, _, _)
FakeKeywordLabels(t, name, keyword, langs) ==
    IF langs = <<>> THEN t
    ELSE FakeKeywordLabels(
           Insert(t, "ThesaurusKeywordLabel",
                  [keyword |-> <<keyword, "_about">>, lang |-> Head(langs),
                   label |-> <<keyword, "_l_", Head(langs), "_t_", name>>]),
           name, keyword, Tail(langs))

\* lines 157-169
RECURSIVE FakeThesaurusKeywords(_, _, _)
FakeThesaurusKeywords(t, name, keywords) ==
    IF keywords = <<>> THEN t
    ELSE FakeThesaurusKeywords(
           FakeKeywordLabels(
             Insert(t, "ThesaurusKeyword",
                    [thesaurus |-> name, about |-> <<Head(keywords), "_about">>,
                     alt_label |-> <<Head(keywords), "_alt">>]),
             name, Head(keywords), FakeLanguages),
           name, Tail(keywords))

\* lines 147-169
create_fake_thesaurus(t, name) ==
    FakeThesaurusKeywords(
      Insert(t, "Thesaurus", [identifier |-> name, title |-> <<"Title: ", name>>]),
      name, FakeKeywords)

\* name.startswith('fake')
StartsWithFake(name) == name \in {"fake", "fake-thesaurus"}

\* lines 55-70
handle(t, input_file, name, dryrun) ==
    IF input_file.kind = "none" THEN Raise(t, "CommandError")
    ELSE IF name = "" THEN Raise(t, "CommandError")
    ELSE IF StartsWithFake(name) THEN create_fake_thesaurus(t, name)
    ELSE load_thesaurus(t, input_file, name, ~dryrun)

\* the thesaurus files of the model
TitleLists ==
    {<<>>, <<Literal(NoLanguage, <<"T", "h">>)>>,
     <<Literal("it", <<"T", "e">>), Literal("en-GB", <<"G">>)>>}

ConceptLists ==
    {<<>>,
     <<Concept(<<"c1">>, <<"alt">>,
               <<Literal("it", <<"u">>), Literal("en", <<"o">>)>>)>>,
     <<Concept(<<"c1">>, NoAltLabel, <<Literal("en", <<"o">>)>>),
       Concept(<<"c2">>, NoAltLabel,
               <<Literal("en", <<"p">>), Literal(NoLanguage, <<"q">>)>>)>>,
     <<Concept(<<"c3">>, NoAltLabel, <<Literal("it", <<"u">>)>>)>>}

Files ==
    {NoFile, Unparsable}
    \cup {Graph(n, titles, concepts) :
            n \in 0..MaxSchemes, titles \in TitleLists, concepts \in ConceptLists}

Names == {"", "fake", "fake-thesaurus", "gemet"}

\* python manage.py load_thesaurus --file ... --name ... [--dry-run]
LoadThesaurusCommand ==
    /\ command.exc = "idle" \/ command = NoCommand
    /\ Len(db.Thesaurus) < MaxThesauri
    /\ \E input_file \in Files, name \in Names, dryrun \in BOOLEAN :
         /\ db' = handle(ThesaurusFrame, input_file, name, dryrun).db
         /\ command' = [name |-> name, file |-> input_file, dryrun |-> dryrun,
                        before |-> db,
                        exc |-> handle(ThesaurusFrame, input_file, name, dryrun).exc]
    /\ UNCHANGED <<rows, calls, last, settings, worker, observed, creators>>

\* the shell takes the outcome of the command
CommandReturn ==
    /\ command # NoCommand /\ command.exc # "idle"
    /\ command' = [command EXCEPT !.exc = "idle"]
    /\ UNCHANGED <<rows, calls, last, settings, worker, observed, db, creators>>

InitThesaurus == Init

NextThesaurus ==
    \/ LoadThesaurusCommand
    \/ CommandReturn

SpecThesaurus == InitThesaurus /\ [][NextThesaurus]_vars

\* ------------------------------------------------------- racing creates
\* Two threads call create with the same uuid and resource type on a store that
\* holds no resource of that uuid, each on its own connection in autocommit;
\* rows is what is committed.  The statements of create are taken one by one.
\* what the racing threads leave alone
Others == <<calls, last, settings, worker, observed, db, command>>

Move(t, c) == creators' = [creators EXCEPT ![t] = c]

\* the frame of a statement of thread t
CreatorFrame(t) == [Frame({}) EXCEPT !.m = creators[t].m]

\* lines 321-322: a resource of the type with the uuid is returned as it is
RaceExists ==
    \E t \in Threads :
      /\ creators[t].pc = "start"
      /\ Move(t, IF ByUuidType(rows, creators[t].uuid, creators[t].rtype) # {}
                 THEN [creators[t] EXCEPT
                         !.pc = "done",
                         !.m = GetOrCreate(Frame({}), creators[t].uuid,
                                           creators[t].rtype).m]
                 ELSE [creators[t] EXCEPT !.pc = "get"])
      /\ UNCHANGED Others
      /\ UNCHANGED rows

\* lines 325-327, the SELECT of get_or_create: the record when there is one
RaceGet ==
    \E t \in Threads :
      /\ creators[t].pc = "get"
      /\ Move(t, IF ByUuidType(rows, creators[t].uuid, creators[t].rtype) = {}
                 THEN [creators[t] EXCEPT !.pc = "insert"]
                 ELSE IF GetOrCreate(Frame({}), creators[t].uuid,
                                     creators[t].rtype).exc # "none"
                 THEN [creators[t] EXCEPT !.pc = "done",
                                          !.exc = "MultipleObjectsReturned"]
                 ELSE [creators[t] EXCEPT
                         !.pc = "fetched",
                         !.m = GetOrCreate(Frame({}), creators[t].uuid,
                                           creators[t].rtype).m])
      /\ UNCHANGED Others
      /\ UNCHANGED rows

\* lines 325-327, the INSERT of get_or_create when the SELECT found nothing: no
\* constraint of the store refuses a uuid that is already there
RaceInsert ==
    \E t \in Threads :
      /\ creators[t].pc = "insert"
      /\ rows' = PutRow(rows, NewRow(FreeId(rows), creators[t].uuid, creators[t].rtype))
      /\ Move(t, [creators[t] EXCEPT
                    !.pc = "fetched", !.created = TRUE,
                    !.m = NewRow(FreeId(rows), creators[t].uuid, creators[t].rtype)])
      /\ UNCHANGED Others

\* lines 327-328: if _resource and _created: set_processing_state(RUNNING)
RaceCreated ==
    \E t \in Threads :
      /\ creators[t].pc = "fetched"
      /\ IF creators[t].created
         THEN /\ rows' = SetProcessingState(CreatorFrame(t), STATE_RUNNING).rows
              /\ Move(t, [creators[t] EXCEPT !.pc = "txn", !.m.state = STATE_RUNNING])
         ELSE /\ rows' = rows
              /\ Move(t, [creators[t] EXCEPT !.pc = "done"])
      /\ UNCHANGED Others

\* lines 330-332: set_missing_info and the backend create, either may raise
RaceBackend ==
    \E t \in Threads, F \in FaultSets(CreateSteps) :
      /\ creators[t].pc = "txn"
      /\ Move(t, [creators[t] EXCEPT
                    !.pc = "after",
                    !.backend = "set_missing_info" \notin F,
                    !.exc = CreateTxn(Frame(F)).exc])
      /\ UNCHANGED Others
      /\ UNCHANGED rows

\* lines 333-339: PROCESSED, or the compensating delete and the exception
RaceEnd ==
    \E t \in Threads :
      /\ creators[t].pc = "after"
      /\ IF creators[t].exc = "none"
         THEN /\ rows' = SetProcessingState(CreatorFrame(t), STATE_PROCESSED).rows
              /\ Move(t, [creators[t] EXCEPT !.pc = "done", !.m.state = STATE_PROCESSED])
         ELSE /\ rows' = Delete(CreatorFrame(t), creators[t].m.uuid, creators[t].m).rows
              /\ Move(t, [creators[t] EXCEPT !.pc = "done", !.compensated = TRUE])
      /\ UNCHANGED Others

InitRace ==
    /\ rows = <<>>
    /\ calls = 0
    /\ last = NoCall
    /\ settings = DefaultSettings
    /\ worker = NoWorker
    /\ observed = NoObservation
    /\ db = EmptyDb
    /\ command = NoCommand
    /\ creators \in {[t \in Threads |-> Creator(uuid, rtype)] :
                       uuid \in Uuids, rtype \in ResourceTypes}

NextRace ==
    \/ RaceExists
    \/ RaceGet
    \/ RaceInsert
    \/ RaceCreated
    \/ RaceBackend
    \/ RaceEnd

SpecRace == InitRace /\ [][NextRace]_vars

\* --------------------------------------------------------------- claims
\* the call that has just returned or raised
Called(op) == last.call.op = op

HasEvent(e) == \E i \in DOMAIN last.log : last.log[i] = e

HasRaised(es) == \E i \in DOMAIN last.raised : last.raised[i] \in es

\* create has inserted a record and a step of its transaction has thrown
CreateFailedAfterInsert ==
    Called("create") /\ HasEvent("insert") /\ last.faults \cap CreateSteps # {}

\* C1: create with a uuid for which a resource of the requested type exists
\* returns that resource, changes nothing in the store, calls neither the
\* backend create nor set_processing_state, and exactly one record carries the
\* uuid afterwards.
C1_CreateIdempotent ==
    (Called("create")
       /\ ByUuidType(last.before, last.call.uuid, last.call.rtype) # {})
    => /\ last.exc = "none"
       /\ last.ret \in ByUuidType(last.before, last.call.uuid, last.call.rtype)
       /\ rows = last.before
       /\ ~HasEvent("be.create")
       /\ ~HasEvent(STATE_RUNNING)
       /\ Cardinality(ByUuid(rows, last.call.uuid)) = 1

\* C2: after delete has returned for a uuid of which a base record existed
\* when it was called, no base record carries that uuid, whichever steps threw.
C2_DeleteLeavesNoBaseRecord ==
    (Called("delete") /\ last.call.uuid # NoUuid
       /\ ByUuid(last.before, last.call.uuid) # {})
    => ByUuid(rows, last.call.uuid) = {}

\* C3: when an operation that marked a resource RUNNING has returned or raised
\* and the resource is still in the store, the resource is PROCESSED or INVALID.
C3_NeverLeftRunning ==
    (last.call.op \in {"create", "update", "delete", "remove_permissions",
                       "set_permissions", "set_thumbnail"}
       /\ HasEvent(STATE_RUNNING)
       /\ last.target.id \in DOMAIN rows)
    => rows[last.target.id].state \in {STATE_PROCESSED, STATE_INVALID}

\* C4: when create has inserted a record and set_missing_info or the backend
\* create throws, create calls delete on the resource and raises that same
\* failure; no base record with the uuid is left.
C4_CreateCompensates ==
    CreateFailedAfterInsert
    => /\ HasEvent("delete")
       /\ HasEvent("base.delete")
       /\ last.exc \in last.faults \cap CreateSteps
       /\ ByUuid(rows, last.target.uuid) = {}

\* the backend create throws, and so does the backend delete of the
\* compensating delete of a Dataset
C4_Witness ==
    /\ CreateFailedAfterInsert
    /\ last.faults = {"be.create", "be.delete"}
    /\ last.target.rtype = "Dataset"
    /\ last.exc = "be.create"
    /\ HasRaised({"be.delete"})
    /\ rows = last.before

C6_DeleteAbsentIsNoOp ==
    (Called("delete") /\ last.call.inst = 0 /\ last.call.uuid # NoUuid
       /\ ByUuid(last.before, last.call.uuid) = {})
    => /\ last.ret = 0
       /\ last.exc = "none"
       /\ rows = last.before
       /\ last.log = <<"delete">>

\* delete of an absent uuid while the store holds a resource
C6_Witness ==
    /\ Called("delete") /\ last.call.inst = 0 /\ last.call.uuid # NoUuid
    /\ ByUuid(last.before, last.call.uuid) = {}
    /\ DOMAIN last.before # {}
    /\ last.ret = 0

\* C7: delete returns 1 exactly when the resource existed and the delete was
\* attempted, also when the backend delete or a later step threw.
C7_DeleteReturnsOneWhenAttempted ==
    Called("delete") => (last.ret = 1 <=> HasEvent(STATE_RUNNING))

\* C8: a resource that is INVALID is dirty, and every transition to INVALID
\* made in update, ingest, remove_permissions and set_permissions is followed
\* at once by the setting of the dirty flag.
C8_InvalidImpliesDirty ==
    /\ \A i \in DOMAIN rows : rows[i].state = STATE_INVALID => rows[i].dirty
    /\ last.call.op \in {"update", "ingest", "remove_permissions", "set_permissions"}
       => \A k \in DOMAIN last.log :
            last.log[k] = STATE_INVALID
            => k + 1 \in DOMAIN last.log /\ last.log[k + 1] = "dirty"

\* an update has failed and left its resource INVALID
C8_Witness ==
    /\ Called("update")
    /\ HasEvent(STATE_INVALID)
    /\ last.target.id \in DOMAIN rows
    /\ rows[last.target.id].state = STATE_INVALID
    /\ rows[last.target.id].dirty

\* the steps inside update's transaction
UpdateTxnSteps ==
    {"md.open", "parse_metadata", "save", "update_resource", "be.update",
     "metadata_storers", "task.execute"}

\* C9: an exception raised inside the transaction of update on an existing
\* resource does not reach the caller; the store is as before the call but for
\* the resource being INVALID and dirty, and update returns the resource.
C9_UpdateSwallowsAndRollsBack ==
    (Called("update") /\ last.target.id # 0
       /\ HasRaised(UpdateTxnSteps \cup {"ValidationError"}))
    => /\ last.exc \notin UpdateTxnSteps \cup {"ValidationError"}
       /\ last.exc = "none" => last.ret = last.target.id
       /\ rows = [last.before EXCEPT ![last.target.id].state = STATE_INVALID,
                                     ![last.target.id].dirty = TRUE]

\* the backend update throws after the resource was saved and its fields set
C9_Witness ==
    /\ Called("update")
    /\ HasRaised({"be.update"})
    /\ HasEvent("save") /\ HasEvent("update_resource")
    /\ last.exc = "none"
    /\ last.ret = last.target.id
    /\ rows[last.target.id].vals = {}

\* an uploaded metadata document was parsed and its uuid is not the non-empty
\* uuid update was called with
UuidMismatch ==
    /\ Called("update") /\ last.target.id # 0
    /\ last.call.md /\ last.call.uuid # NoUuid /\ last.call.parsed # last.call.uuid
    /\ last.faults \cap {"set_missing_info", "md.open", "parse_metadata"} = {}

\* C10: update with a metadata document whose uuid is not the expected one
\* fails with a validation error before the save: nothing is saved, no field is
\* updated, the backend update, the custom metadata merge and the workflow
\* tasks are not run, and the resource ends INVALID and dirty.
C10_UuidMismatchAborts ==
    UuidMismatch
    => /\ HasRaised({"ValidationError"})
       /\ \A e \in {"save", "update_resource", "be.update", "metadata_storers",
                    "task.execute"} : ~HasEvent(e)
       /\ rows[last.target.id].state = STATE_INVALID
       /\ rows[last.target.id].dirty

C10_Witness ==
    /\ UuidMismatch
    /\ last.raised = <<"ValidationError">>
    /\ HasEvent("parse_metadata")
    /\ last.ret = last.target.id

\* C11: when the file copy, the backend ingestion or the save of ingest throws
\* after the resource was created and ingest returns, the resource is INVALID
\* and dirty: the finalisation does not put PROCESSED in place of the mark.
C11_IngestFailureStaysInvalid ==
    (Called("ingest") /\ last.target.id # 0 /\ last.exc = "none"
       /\ last.raised # <<>>
       /\ last.raised[1] \in {"copy_files_list", "be.ingest", "save"})
    => /\ last.target.id \in DOMAIN rows
       /\ rows[last.target.id].state = STATE_INVALID
       /\ rows[last.target.id].dirty

\* the anonymous principals
Anonymous == {AnonymousUser, AnonymousGroup}

\* the grants the source of a copy held when copy was called
CopySourcePerms ==
    IF last.call.inst \in DOMAIN last.before
    THEN last.before[last.call.inst].perms ELSE {}

\* how many times the event is in the log of the call
Count(e) == Cardinality({i \in DOMAIN last.log : last.log[i] = e})

\* C12: when copy has made a clone and applied a perm spec to it, the spec has
\* no entry of the anonymous user and none of the anonymous group, it has every
\* other entry of the grants the source held, unchanged, and the clone ends
\* with no grant of an anonymous principal.
C12_CloneSpecHasNoAnonymous ==
    (Called("copy") /\ HasEvent("set_permissions"))
    => /\ last.spec.grants = {g \in CopySourcePerms : g[1] \notin Anonymous}
       /\ last.target.id \in DOMAIN rows
       /\ \A g \in rows[last.target.id].perms : g[1] \notin Anonymous

C12_Witness ==
    /\ Called("copy") /\ HasEvent("set_permissions")
    /\ last.ret = last.target.id /\ last.ret # last.call.inst
    /\ \E g \in CopySourcePerms : g[1] = AnonymousUser
    /\ \E g \in CopySourcePerms : g[1] = AnonymousGroup
    /\ <<"user", "view_resourcebase">> \in last.spec.grants
    /\ <<"user", "view_resourcebase">> \in rows[last.target.id].perms

\* C13: when a step of copy's try block throws (the backend copy or a cloning
\* step before it), copy returns None.
C13_CopyFailureReturnsNone ==
    (Called("copy") /\ last.call.inst # 0 /\ last.faults \cap CopySteps # {})
    => last.ret = 0

\* C14: append on a resource that is not a Dataset, and append on a Dataset
\* that the backend has but that is not a vector one, raise the policy
\* violation error, call no backend append and make no update.
C14_AppendPolicyViolation ==
    (Called("append") /\ last.call.inst # 0 /\ "be.exists" \notin last.faults
       /\ (last.target.rtype # "Dataset"
           \/ (last.args.exists /\ ~last.args.vector)))
    => /\ last.exc = "Exception"
       /\ ~HasEvent("be.append")
       /\ ~HasEvent("update")

\* append on a vector Dataset that the backend has, no backend call throwing
AppendPermitted ==
    /\ Called("append") /\ last.target.rtype = "Dataset"
    /\ last.args.vector /\ last.args.exists
    /\ last.faults \cap {"be.exists", "be.append"} = {}

\* C15: append on a vector Dataset that the backend has calls the backend
\* append once, then update once; the values update stores are the given ones
\* without the acting user.
C15_AppendThenOneUpdate ==
    AppendPermitted
    => /\ Count("be.append") = 1
       /\ Count("update") = 1
       /\ \E i, j \in DOMAIN last.log :
            i < j /\ last.log[i] = "be.append" /\ last.log[j] = "update"
       /\ last.target.id \in DOMAIN rows
       /\ "user" \notin rows[last.target.id].vals
       /\ last.faults = {}
          => rows[last.target.id].vals
               = last.before[last.target.id].vals \cup (last.args.vals \ {"user"})

C15_Witness ==
    /\ AppendPermitted /\ last.faults = {}
    /\ "user" \in last.args.vals
    /\ "title" \in rows[last.target.id].vals
    /\ "title" \notin last.before[last.target.id].vals
    /\ last.ret = last.target.id

\* the backend says that the resource of an append on a Dataset, or of a
\* replace on a resource that is no Document, does not exist
BackendResourceAbsent ==
    /\ last.call.inst # 0 /\ ~last.args.exists /\ "be.exists" \notin last.faults
    /\ \/ Called("append") /\ last.target.rtype = "Dataset"
       \/ Called("replace") /\ last.target.rtype # "Document"

\* C16: append on a Dataset and replace on a resource that is no Document raise
\* the not found error when the backend says the resource does not exist: no
\* backend append or replace is called, no update is made, the store is as it
\* was. replace on a Document does not ask the backend whether the resource
\* exists and goes on to the backend replace and to the update.
C16_BackendExistenceRequired ==
    /\ BackendResourceAbsent
       => /\ last.exc = "ObjectDoesNotExist"
          /\ ~HasEvent("be.append") /\ ~HasEvent("be.replace")
          /\ ~HasEvent("storage.replace") /\ ~HasEvent("update")
          /\ rows = last.before
    /\ (Called("replace") /\ last.target.rtype = "Document")
       => /\ ~HasEvent("be.exists")
          /\ last.exc # "ObjectDoesNotExist"
          /\ last.faults \cap {"storage.replace", "be.replace"} = {}
             => /\ Count("be.replace") = 1
                /\ Count("update") = 1

C16_Witness ==
    /\ BackendResourceAbsent /\ Called("replace")
    /\ last.exc = "ObjectDoesNotExist" /\ last.faults = {}

C16_WitnessDocument ==
    /\ Called("replace") /\ last.target.rtype = "Document" /\ ~last.args.exists
    /\ HasEvent("be.replace") /\ HasEvent("update")

C18_BackendMirrorFailureIsNotFatal ==
    (Called("set_permissions") /\ HasEvent("assign_perm")
       /\ "be.set_permissions.false" \in last.faults)
    => /\ last.ret = 1
       /\ last.exc = "none"
       /\ rows[last.target.id].state = STATE_PROCESSED
       /\ OwnerGrants(last.target.rtype) \cup Grants(last.args.permissions, last.target.rtype)
            \subseteq rows[last.target.id].perms

C18_Witness ==
    /\ Called("set_permissions")
    /\ HasEvent("be.set_permissions.false")
    /\ last.args.permissions # NoPermSpec
    /\ <<"user", "view_resourcebase">> \in rows[last.target.id].perms
    /\ last.ret = 1

\* an exception has left the transaction of set_permissions
SetPermissionsTxnFailed ==
    /\ Called("set_permissions") /\ last.target.id # 0
    /\ last.raised # <<>>
    /\ last.raised[Len(last.raised)] \in {"DoesNotExist", "be.set_permissions"}

\* C19: when an exception occurs inside the transaction of set_permissions, the
\* store is as before the call (no grant, no removal, no owner change) but for
\* the resource being INVALID and dirty; false is returned, nothing is raised.
C19_SetPermissionsAllOrNothing ==
    SetPermissionsTxnFailed
    => /\ last.ret = 0
       /\ last.exc = "none"
       /\ rows = [last.before EXCEPT ![last.target.id].state = STATE_INVALID,
                                     ![last.target.id].dirty = TRUE]

\* a principal of the spec is unknown, after the owner was changed and the
\* permissions the resource had were removed
C19_Witness ==
    /\ SetPermissionsTxnFailed
    /\ last.raised = <<"DoesNotExist">>
    /\ last.args.owner = "bob"
    /\ HasEvent("owner.update") /\ HasEvent("perms.delete")
    /\ rows[last.target.id].owner = "admin"
    /\ rows[last.target.id].perms # {}

\* C20: after set_permissions, a download permission is granted only on a
\* downloadable resource type and the data edit permission only on a resource
\* whose subtype is data-editable (a vector Dataset).
C20_PermissionGate ==
    (Called("set_permissions") /\ last.target.id # 0 /\ last.raised = <<>>)
    => \A g \in rows[last.target.id].perms :
         /\ g[2] \in DOWNLOAD_PERMISSIONS
            => last.target.rtype \in DOWNLOADABLE_RESOURCES
         /\ g[2] \in DATASET_EDIT_DATA_PERMISSIONS
            => last.target.rtype = "Dataset" /\ last.args.vector

\* set_permissions with an empty perm spec has given the default grants to a
\* resource that was neither approved nor published
DefaultSetPermissions ==
    /\ Called("set_permissions") /\ last.args.permissions.keys = {}
    /\ last.ret = 1 /\ last.target.id \in DOMAIN rows
    /\ ~last.before[last.target.id].is_approved
    /\ ~last.before[last.target.id].is_published

\* the permissions the principal holds on the resource the call worked on
Held(principal) == Entry(PermSpec(rows[last.target.id].perms), principal)

\* C21: by the default grants the anonymous group is given view only when the
\* default anonymous view is on and resource publishing is off; with resource
\* publishing on the anonymous group is given nothing.
C21_AnonymousViewFollowsWorkflow ==
    DefaultSetPermissions
    => /\ "view_resourcebase" \in Held(AnonymousGroup)
          => (settings.DEFAULT_ANONYMOUS_VIEW_PERMISSION
              /\ ~settings.RESOURCE_PUBLISHING)
       /\ settings.RESOURCE_PUBLISHING => Held(AnonymousGroup) = {}

\* the default grants are given on an Auto-publish site with the default
\* anonymous view on
AutoPublishDefaults ==
    /\ DefaultSetPermissions
    /\ ~settings.RESOURCE_PUBLISHING /\ ~settings.ADMIN_MODERATE_UPLOADS
    /\ settings.DEFAULT_ANONYMOUS_VIEW_PERMISSION

WorkflowAnswered ==
    /\ Called("get_workflow_permissions")
    /\ last.target.id # 0 /\ last.exc = "none"

\* C23: the managers of the groups of the owner are given the owner
\* permissions without publish under Simple publishing and with publish under
\* the Advanced workflow.
C23_ManagersPublishByScenario ==
    (WorkflowAnswered /\ last.call.md /\ settings.RESOURCE_PUBLISHING)
    => /\ view_perms(last.target.rtype) \subseteq Entry(last.spec, "manager")
       /\ "publish_resourcebase" \in Entry(last.spec, "manager")
            <=> settings.ADMIN_MODERATE_UPLOADS

\* the grants get_workflow_permissions starts from: those of the perm spec of
\* the caller, those of the resource when the caller gives none
WorkflowIncomingGrants ==
    IF last.args.permissions.keys # {} THEN last.args.permissions.grants
    ELSE last.before[last.target.id].perms

\* C24: every grant get_workflow_permissions starts from is in the perm spec
\* it hands to the backend, under every configuration and for every resource.
C24_WorkflowOnlyAdds ==
    WorkflowAnswered => WorkflowIncomingGrants \subseteq last.spec.grants

C24_Witness ==
    /\ WorkflowAnswered
    /\ \E g \in WorkflowIncomingGrants :
         /\ g[1] = AnonymousGroup
         /\ \E h \in last.spec.grants \ WorkflowIncomingGrants : h[1] = AnonymousGroup

\* C25: for a published resource the perm spec of get_workflow_permissions
\* gives the anonymous group view, and download when the type is downloadable,
\* under every configuration.
C25_PublishedIsPublic ==
    (WorkflowAnswered /\ last.target.is_published)
    => view_perms(last.target.rtype) \subseteq Entry(last.spec, AnonymousGroup)

\* C26: exec with a method the backend does not have, or for a uuid that
\* resolves to no resource, calls no method of the backend, leaves the store as
\* it was, raises nothing and returns the instance argument.
C26_ExecWithoutMethodIsNoOp ==
    (Called("exec") /\ (~last.call.md \/ last.target.id = 0))
    => /\ ~HasEvent("be.exec")
       /\ last.faults = {}
       /\ rows = last.before
       /\ last.exc = "none"
       /\ last.ret = last.call.inst

C26_Witness ==
    /\ Called("exec") /\ ~last.call.md
    /\ last.call.inst # 0 /\ last.ret = last.call.inst

C26_WitnessNoResource ==
    /\ Called("exec") /\ last.call.md /\ last.call.uuid # NoUuid
    /\ rows # <<>> /\ last.target.id = 0 /\ last.ret = 0

\* C27: delete called with a uuid and with an instance works on the resource of
\* the instance: a base record that carries another uuid than the one of the
\* instance is still there after the call.
C27_InstanceDecidesTarget ==
    (Called("delete") /\ last.call.inst # 0 /\ last.call.uuid # NoUuid)
    => \A i \in DOMAIN last.before :
         last.before[i].uuid # last.before[last.call.inst].uuid
         => i \in DOMAIN rows

\* C29: once delete has run its forced removal of the base records of a uuid,
\* no base record carries the uuid when the call of the manager that ran the
\* delete has ended, whatever transaction is rolled back.
C29_ForcedRemovalOutlivesRollback ==
    ((Called("delete") \/ Called("create") \/ Called("ingest"))
       /\ HasEvent("base.delete") /\ last.call.uuid # NoUuid)
    => ByUuid(rows, last.call.uuid) = {}

\* C30: after set_permissions and after get_workflow_permissions, with or
\* without a failure, the perm spec object of the caller is what it was when
\* the call was made.
C30_CallerSpecUntouched ==
    (Called("set_permissions") \/ Called("get_workflow_permissions"))
    => last.caller = last.args.permissions

C30_Witness ==
    /\ WorkflowAnswered /\ last.args.permissions.keys # {}
    /\ last.spec # last.args.permissions
    /\ last.caller = last.args.permissions

\* C28: another operation never reads a resource as RUNNING unless the
\* operation that marked it holds its transaction at that moment: RUNNING is
\* set only inside the transaction of create, update, remove_permissions,
\* set_permissions and set_thumbnail.
C28_RunningOnlyInsideTransaction ==
    observed.state = STATE_RUNNING => observed.atomic

\* C31: set_thumbnail that ends without a failure on a Document with files,
\* when overwrite is set or the thumbnail is the placeholder, has generated
\* the document thumbnail and then called the backend, whether the resource was
\* given as an instance or found by its uuid.
C31_DocumentThumbnailGenerated ==
    (Called("set_thumbnail") /\ last.target.rtype = "Document" /\ last.call.md
       /\ last.ret = 1)
    => HasEvent("create_document_thumbnail") /\ HasEvent("be.set_thumbnail")

\* C32: load_thesaurus run with --dry-run inserts no row in any table,
\* whatever the name (those starting with 'fake' too) and whatever the file.
C32_DryRunInsertsNothing ==
    command.dryrun => db = command.before

\* every event a of the last call comes before every event b of it
Precedes(a, b) ==
    \A i \in DOMAIN last.log, j \in DOMAIN last.log :
      (last.log[i] = a /\ last.log[j] = b) => i < j

\* C33: within set_permissions the existing permissions are removed first, then
\* the owner is changed, then the grants are assigned, then the backend is
\* called: no owner change and no grant comes before the removal.
C33_SetPermissionsOrder ==
    Called("set_permissions")
    => /\ Precedes("perms.delete", "owner.update")
       /\ Precedes("perms.delete", "set_owner_permissions")
       /\ Precedes("perms.delete", "assign_perm")
       /\ Precedes("owner.update", "set_owner_permissions")
       /\ Precedes("set_owner_permissions", "assign_perm")
       /\ Precedes("assign_perm", "be.set_permissions")

\* where event e comes first in the last call, 0 when it does not occur
First(e) ==
    IF HasEvent(e) THEN CHOOSE i \in DOMAIN last.log :
                          last.log[i] = e /\ \A j \in 1..(i - 1) : last.log[j] # e
    ELSE 0

\* the events of the last call that all occur, in this order
InOrder(events) ==
    /\ \A k \in DOMAIN events : HasEvent(events[k])
    /\ \A k \in 1..(Len(events) - 1) : First(events[k]) < First(events[k + 1])

\* C34: a delete of an existing resource of any type in which nothing fails
\* marks the resource RUNNING, calls the backend, runs the cascades of the
\* type, strips the permissions, deletes the concrete record and then the base
\* record, in this order.
C34_DeleteOrder ==
    (Called("delete") /\ last.ret = 1 /\ last.faults = {})
    => /\ InOrder(<<STATE_RUNNING, "be.delete", "perms.delete", "real.delete",
                    "base.delete">>)
       /\ last.target.rtype = "Dataset"
          => InOrder(<<"be.delete", "maplayers.delete", "ratings.delete",
                       "uploads.delete", "styles.delete", "perms.delete">>)

\* the cascade steps of the delete of a Dataset
CascadeSteps == {"maplayers.delete", "ratings.delete", "uploads.delete", "styles.delete"}

CascadeFailed ==
    /\ Called("delete") /\ HasEvent("be.delete") /\ last.target.rtype = "Dataset"
    /\ last.faults # {} /\ last.faults \subseteq CascadeSteps

\* C35: when a cascade step of the delete of a Dataset fails, every other
\* cascade step, the permission strip and the delete of the concrete record
\* are still made, and delete returns 1 without raising.
C35_CascadeFailureSwallowed ==
    CascadeFailed
    => /\ \A e \in CascadeSteps \ last.faults : HasEvent(e)
       /\ InOrder(<<"perms.delete", "real.delete", "base.delete">>)
       /\ last.exc = "none" /\ last.ret = 1

C35_Witness ==
    /\ CascadeFailed /\ "maplayers.delete" \in last.faults
    /\ HasEvent("styles.delete") /\ HasEvent("real.delete") /\ last.ret = 1

\* C36: when the cloning of the dependent entities fails after the clone was
\* saved, copy leaves no cloned record in the store.
C36_CloneIsAtomic ==
    (Called("copy") /\ HasEvent("clone.save") /\ "clone_dependents" \in last.faults)
    => DOMAIN rows \subseteq DOMAIN last.before

\* the grants set_permissions resolves for the resource of the last call: those
\* of the owner and those of the perm spec, or the default ones
ResolvedGrants ==
    OwnerGrants(last.target.rtype) \cup Grants(last.args.permissions, last.target.rtype)

\* C37: when set_permissions returns true, the grants of the resource in the
\* store are exactly the grants the call resolved, also when the permission
\* removal inside the call failed.
C37_GrantsAreTheResolvedOnes ==
    (Called("set_permissions") /\ last.ret = 1 /\ last.target.id \in DOMAIN rows)
    => rows[last.target.id].perms = ResolvedGrants

\* the permission removal inside the last set_permissions failed
InnerRemovalFailed ==
    /\ Called("set_permissions") /\ last.target.id \in DOMAIN rows
    /\ last.faults \cap {"be.remove_permissions", "be.remove_permissions.false"} # {}

\* C38: when the permission removal inside set_permissions fails, the resource
\* is INVALID and dirty when set_permissions returns.
C38_FailedRemovalStaysInvalid ==
    InnerRemovalFailed
    => /\ rows[last.target.id].state = STATE_INVALID
       /\ rows[last.target.id].dirty

\* C39: no two base records of the store carry the same uuid, whatever calls
\* of the manager were made.
C39_UuidIsUnique ==
    \A i \in DOMAIN rows, j \in DOMAIN rows : rows[i].uuid = rows[j].uuid => i = j

\* C40: of two create calls that interleave on the same unused uuid and
\* resource type, at most one inserts the record and at most one calls the
\* backend create; the one that inserted nothing calls neither the backend
\* create nor the compensating delete.
C40_OneCreateWins ==
    /\ Cardinality({t \in Threads : creators[t].created}) <= 1
    /\ Cardinality({t \in Threads : creators[t].backend}) <= 1
    /\ \A t \in Threads :
         ~creators[t].created => ~creators[t].backend /\ ~creators[t].compensated

====
